---- MODULE Spec2Model ----
(***************************************************************************)
(* Model of the Atlas guardrail layer: the lexical read-only validator of  *)
(* OracleConnector, its query executor over the shared connection pool,    *)
(* the Data Moat role filter and the natural-language query path.          *)
(*                                                                         *)
(* A SQL text is a sequence of one-character strings, so the validator's   *)
(* regular expression is evaluated character by character.                 *)
(***************************************************************************)
EXTENDS Integers, Sequences, FiniteSets, TLC

VARIABLES
    sql,        \* validator harness: the SQL text handed to validate_query
    npieces,    \* validator harness: number of pieces the text was built from
    vres,       \* validator harness: "pending", "ok" or "ReadOnlyViolation"
    vkeyword,   \* validator harness: keyword named in the raised error
    env,        \* executor: the inputs of this run (calls, SQL texts, backend behaviour)
    timeout_seconds, \* executor: configured deadline (safe_db_connector DB_TIMEOUT)
    max_rows,   \* executor: configured row cap (safe_db_connector DB_MAX_ROWS)
    pool,       \* OracleConnector._pool: 0 is None, g > 0 the g-th pool created
    npools,     \* number of pools created so far by connect()
    openPools,  \* pools created and not yet closed
    closing,    \* the pool whose close() a close() call awaits, 0 if none
    pc,         \* per call: position inside execute_query
    csql,       \* per call: the sql argument
    cpool,      \* per call: the pool read from self._pool (0: None)
    held,       \* per call: <<pool, slot>> of the connection held, <<0, 0>> if none
    acq,        \* per call: number of connections it has acquired so far
    delay,      \* per call: time the backend needs to complete the statement
    waited,     \* per call: time spent so far awaiting cursor.execute
    avail,      \* per call: number of rows in the backend's result set
    res,        \* per call: outcome of execute_query
    ret,        \* per call: number of rows returned to the caller
    stalled,    \* per call: it asked for a connection when none was free
    schema,     \* data/oracle_fusion_schema.json: the registry of schema objects
    mtables,    \* filter harness: the candidate list
    mrole,      \* filter harness: the user_role argument
    mfiltered,  \* filter harness: the list filter_tables_by_role returned
    mdone,      \* filter harness: filter_tables_by_role has been called
    ch_pc,      \* POST /v1/chat: position of the request inside chat()
    ch_caller,  \* run(): "chat" when chat() called it, "run" for a direct call
    ch_token,   \* POST /v1/chat: the bearer token of the request, NoToken if none
    ch_user,    \* chat(): role of the user the dependency resolved, "None" if none
    ch_cands,   \* run(): the list search_tables returned
    ch_tables,  \* run(): relevant_tables, after the role filter
    ch_prompt,  \* run(): the tables written into the prompt of the generator
    ch_sql,     \* run(): generated_sql, stripped
    ch_results, \* response: "None" or "rows"
    ch_error,   \* response: "None" or the kind of error reported
    ch_status,  \* HTTP status of the response, 0 while there is none
    ch_user_role, \* run(): the user_role argument, "None" when left out
    mrefiltered, \* filter harness: the list a second call returned for mfiltered
    mredone,    \* filter harness: the second call has been made
    rc_table,   \* resolver harness: the table dict handed to _resolve_classification
    rc_lookup,  \* resolver harness: the schema_lookup argument, <<>> for None
    rc_result,  \* resolver harness: the classification returned, Pending before
    au_users,   \* auth routes: _mock_users, in the order the users were added
    au_issued,  \* auth routes: per jti the token issued, NotIssued if none
    au_loggedout, \* auth routes: the jtis of the LOGOUT events in the audit log
    au_req,     \* auth routes: the last request served and its status
    rv_now,     \* revocation stores: the clock, in seconds
    rv_store,   \* InMemoryTokenBlacklist._store: jti -> expire timestamp
    rv_blacklist, \* TokenBlacklist._blacklist: jti -> expiration timestamp
    rv_answer,  \* revocation stores: the last answer of is_revoked or cleanup
    rv_cleanup, \* revocation stores: per thread in cleanup(), the time it read
    rl_now,     \* rate limiter: the clock, in seconds
    rl_windows, \* InMemoryRateLimiter._windows: key -> list of timestamps
    rl_log,     \* rate limiter: per key the times of the requests dispatched
                \* since the windows were last cleared
    rl_started, \* rate limiter: the number of requests that entered dispatch
    rl_flight,  \* rate limiter: the requests passed on, awaiting call_next
    rl_last,    \* rate limiter: the last request answered and its outcome
    rd_clock,   \* shared store: the wall clock the processes read
    rd_zset,    \* shared store: the sorted set of one key, member -> score
    rd_pc,      \* per process: position inside RedisRateLimiter.record_request
    rd_t,       \* per process: the value of now it read
    rd_count,   \* per process: the count its call returned, 0 before
    rd_calls,   \* shared store: the calls recorded since the last clear()
    utc_now,    \* datetime.now(timezone.utc), in hours since 00:00 of day 0
    ad_files,   \* audit trail: per day the lines of audit_<date>.jsonl
    ad_counter, \* AuditLogger._event_counter
    ad_last,    \* audit trail: the last call or request and its outcome
    er_n,       \* execute endpoints: number of requests answered
    er_last,    \* execute endpoints: the last request and its response
    er_seen,    \* execute endpoints: the (endpoint, failure class, status) seen
    wh_pc,      \* dispatch_webhook: position inside the call
    wh_max_retries, \* dispatch_webhook: the max_retries argument
    wh_attempt, \* dispatch_webhook: the loop variable
    wh_calls,   \* dispatch_webhook: the outcomes of the urlopen calls made
    wh_sleeps,  \* dispatch_webhook: the delays slept, in units of base_delay
    wh_result   \* dispatch_webhook: "None" while running, then TRUE or FALSE

valVars == <<sql, npieces, vres, vkeyword>>

execVars == <<env, timeout_seconds, max_rows, pool, npools, openPools, closing,
              pc, csql, cpool, held, acq, delay, waited, avail, res, ret,
              stalled>>

moatVars == <<mtables, mrole, mfiltered, mdone, mrefiltered, mredone>>

chatVars == <<ch_pc, ch_caller, ch_token, ch_user, ch_cands, ch_tables, ch_prompt, ch_sql,
              ch_results, ch_error, ch_status, ch_user_role>>

resolveVars == <<rc_table, rc_lookup, rc_result>>

authVars == <<au_users, au_issued, au_loggedout, au_req>>

revokeVars == <<rv_now, rv_store, rv_blacklist, rv_answer, rv_cleanup>>

rateVars == <<rl_now, rl_windows, rl_log, rl_started, rl_flight, rl_last>>

redisVars == <<rd_clock, rd_zset, rd_pc, rd_t, rd_count, rd_calls>>

\* the token, revocation and rate-limit side of the API
secVars == <<authVars, revokeVars, rateVars, redisVars>>

auditVars == <<ad_files, ad_counter, ad_last>>

errVars == <<er_n, er_last, er_seen>>

hookVars == <<wh_pc, wh_max_retries, wh_attempt, wh_calls, wh_sleeps, wh_result>>

\* the audit trail, the execute endpoints and the webhook sender
opsVars == <<auditVars, errVars, hookVars>>

\* everything but the validator harness, but the executor, but the filter
\* harness, but the chat request; the clock is named in each of them, and in
\* none of the groups of the routes that read it
nonValVars == <<utc_now, execVars, schema, moatVars, chatVars, resolveVars, secVars, opsVars>>

nonExecVars == <<utc_now, valVars, schema, moatVars, chatVars, resolveVars, secVars, opsVars>>

nonMoatVars == <<utc_now, valVars, execVars, schema, chatVars, resolveVars, secVars, opsVars>>

nonChatVars == <<utc_now, valVars, execVars, schema, moatVars, resolveVars, secVars, opsVars>>

\* the validator, the executor, the role filter and the chat request together
dataVars == <<valVars, execVars, schema, moatVars, chatVars>>

nonResolveVars == <<utc_now, dataVars, secVars, opsVars>>

nonAuthVars == <<dataVars, resolveVars, revokeVars, rateVars, redisVars, opsVars>>

nonRevokeVars == <<utc_now, dataVars, resolveVars, authVars, rateVars, redisVars, opsVars>>

nonRateVars == <<utc_now, dataVars, resolveVars, authVars, revokeVars, redisVars, opsVars>>

nonRedisVars == <<utc_now, dataVars, resolveVars, authVars, revokeVars, rateVars, opsVars>>

\* everything but the chat request and the audit trail, everything but the
\* auth routes and the audit trail
nonChatAuditVars == <<valVars, execVars, schema, moatVars, resolveVars, secVars,
                      errVars, hookVars>>

nonAuthAuditVars == <<dataVars, resolveVars, revokeVars, rateVars, redisVars,
                      errVars, hookVars>>

nonAuditVars == <<dataVars, resolveVars, secVars, errVars, hookVars>>

\* everything but the execute endpoints and the audit trail
nonErrAuditVars == <<dataVars, resolveVars, secVars, hookVars>>

nonErrVars == <<utc_now, dataVars, resolveVars, secVars, auditVars, hookVars>>

nonHookVars == <<utc_now, dataVars, resolveVars, secVars, auditVars, errVars>>

vars == <<sql, npieces, vres, vkeyword,
          env, timeout_seconds, max_rows, pool, npools, openPools, closing,
          pc, csql, cpool, held, acq, delay, waited, avail, res, ret, stalled,
          schema, mtables, mrole, mfiltered, mdone,
          ch_pc, ch_caller, ch_token, ch_user, ch_cands, ch_tables, ch_prompt,
          ch_sql, ch_results, ch_error, ch_status, ch_user_role,
          mrefiltered, mredone, rc_table, rc_lookup, rc_result,
          utc_now, au_users, au_issued, au_loggedout, au_req,
          rv_now, rv_store, rv_blacklist, rv_answer, rv_cleanup,
          rl_now, rl_windows, rl_log, rl_started, rl_flight, rl_last,
          rd_clock, rd_zset, rd_pc, rd_t, rd_count, rd_calls,
          ad_files, ad_counter, ad_last,
          er_n, er_last, er_seen,
          wh_pc, wh_max_retries, wh_attempt, wh_calls, wh_sleeps, wh_result>>

----------------------------------------------------------------------------
(* Characters *)

UpperLetters ==
    <<"A","B","C","D","E","F","G","H","I","J","K","L","M",
      "N","O","P","Q","R","S","T","U","V","W","X","Y","Z">>

LowerLetters ==
    <<"a","b","c","d","e","f","g","h","i","j","k","l","m",
      "n","o","p","q","r","s","t","u","v","w","x","y","z">>

Digits == {"0","1","2","3","4","5","6","7","8","9"}

\* Characters outside ASCII are written by their code point ("U+0131" is one
\* character). The alphabet holds these representatives of the letters,
\* digits and spaces Python treats specially:
\*   U+0131 dotless i, U+0130 I with dot, U+017F long s, U+212A Kelvin sign,
\*   U+00DF sharp s, U+00E9 / U+00C9 e acute, U+0661 Arabic-Indic digit one
UnicodeLetters ==
    {"U+0131", "U+0130", "U+017F", "U+212A", "U+00DF", "U+00E9", "U+00C9"}

UnicodeDigits == {"U+0661"}

\* str.upper() of every character it changes; sharp s becomes two letters
UpperOf ==
    [c \in { LowerLetters[i] : i \in 1..26 } |->
        <<UpperLetters[CHOOSE i \in 1..26 : LowerLetters[i] = c]>>]
    @@ ("U+0131" :> <<"I">>) @@ ("U+017F" :> <<"S">>)
    @@ ("U+00DF" :> <<"S", "S">>) @@ ("U+00E9" :> <<"U+00C9">>)

\* str.upper() on one character
UpperChar(c) == IF c \in DOMAIN UpperOf THEN UpperOf[c] ELSE <<c>>

RECURSIVE UpperFrom(_, _)
UpperFrom(s, i) ==
    IF i > Len(s) THEN <<>> ELSE UpperChar(s[i]) \o UpperFrom(s, i + 1)

\* str.upper()
UpperStr(s) ==
    IF \A i \in 1..Len(s) : Len(UpperChar(s[i])) = 1
    THEN [i \in 1..Len(s) |-> UpperChar(s[i])[1]]
    ELSE UpperFrom(s, 1)

\* re.IGNORECASE on a str pattern: the ASCII capital a character is taken
\* for when it is compared with a letter of the pattern
IgnoreCaseOf ==
    [c \in { LowerLetters[i] : i \in 1..26 } |->
        UpperLetters[CHOOSE i \in 1..26 : LowerLetters[i] = c]]
    @@ ("U+0131" :> "I") @@ ("U+0130" :> "I")
    @@ ("U+017F" :> "S") @@ ("U+212A" :> "K")

ToUpper(c) == IF c \in DOMAIN IgnoreCaseOf THEN IgnoreCaseOf[c] ELSE c

\* the regular expression class \w of a str pattern: letters and digits of
\* any script, and '_'
IsWordChar(c) ==
    \/ \E i \in 1..26 : UpperLetters[i] = c \/ LowerLetters[i] = c
    \/ c \in Digits
    \/ c = "_"
    \/ c \in UnicodeLetters
    \/ c \in UnicodeDigits

\* the characters str.isspace() accepts, which str.strip() removes
WhiteSpace ==
    {" ", "\t", "\n", "\r", "\f", "U+000B", "U+001C", "U+001D", "U+001E",
     "U+001F", "U+0085", "U+00A0", "U+1680", "U+2000", "U+2001", "U+2002",
     "U+2003", "U+2004", "U+2005", "U+2006", "U+2007", "U+2008", "U+2009",
     "U+200A", "U+2028", "U+2029", "U+202F", "U+205F", "U+3000"}

\* str.isspace() on one character
IsSpace(c) == c \in WhiteSpace

----------------------------------------------------------------------------
(* OracleConnector: the read-only validator *)

FORBIDDEN_KEYWORDS ==
    { <<"I","N","S","E","R","T">>,
      <<"U","P","D","A","T","E">>,
      <<"D","E","L","E","T","E">>,
      <<"D","R","O","P">>,
      <<"A","L","T","E","R">>,
      <<"C","R","E","A","T","E">>,
      <<"T","R","U","N","C","A","T","E">>,
      <<"M","E","R","G","E">>,
      <<"G","R","A","N","T">>,
      <<"R","E","V","O","K","E">> }

\* the pattern without its word boundaries
KeywordMatchAtSubstring(s, i, kw) ==
    /\ i + Len(kw) - 1 <= Len(s)
    /\ \A j \in 1..Len(kw) : ToUpper(s[i + j - 1]) = kw[j]

\* \b(kw)\b with re.IGNORECASE matches at position i of s
KeywordMatchAt(s, i, kw) ==
    /\ i + Len(kw) - 1 <= Len(s)
    /\ \A j \in 1..Len(kw) : ToUpper(s[i + j - 1]) = kw[j]
    /\ (i = 1 \/ ~IsWordChar(s[i - 1]))
    /\ (i + Len(kw) - 1 = Len(s) \/ ~IsWordChar(s[i + Len(kw)]))

\* positions where _KEYWORD_PATTERN matches, for the keyword set kws
MatchPositions(s, kws) ==
    { i \in 1..Len(s) : \E kw \in kws : KeywordMatchAt(s, i, kw) }

Min(S) == CHOOSE x \in S : \A y \in S : x <= y

\* _KEYWORD_PATTERN.search(sql): match.group(1).upper() of the leftmost
\* match, <<>> when there is none
KeywordSearch(s) ==
    LET pos == MatchPositions(s, FORBIDDEN_KEYWORDS)
    IN  IF pos = {} THEN <<>>
        ELSE LET i == Min(pos)
                 kw == CHOOSE k \in FORBIDDEN_KEYWORDS : KeywordMatchAt(s, i, k)
             IN  UpperStr(SubSeq(s, i, i + Len(kw) - 1))

\* validate_query: the error raised, "ok" when it returns without raising
validate_query(s) ==
    IF KeywordSearch(s) # <<>> THEN "ReadOnlyViolation" ELSE "ok"

----------------------------------------------------------------------------
(* Validator harness: SQL texts are built from lexical pieces *)

MaxPieces == 3

Pieces ==
    { <<"S","E","L","E","C","T">>,
      <<"W","I","T","H">>,
      <<"I","N","S","E","R","T">>,
      <<"U","P","D","A","T","E">>,
      <<"D","E","L","E","T","E">>,
      <<"D","R","O","P">>,
      <<"A","L","T","E","R">>,
      <<"C","R","E","A","T","E">>,
      <<"T","R","U","N","C","A","T","E">>,
      <<"M","E","R","G","E">>,
      <<"G","R","A","N","T">>,
      <<"R","E","V","O","K","E">>,
      <<"E","X","E","C","U","T","E">>,
      <<"C","A","L","L">>,
      <<"d","r","o","p">>,
      <<"G","r","a","n","t">>,
      <<"C","O","M","M","I","T">>,
      <<"t","1">>,
      <<"u","p","d","a","t","e","d">>,
      <<"U+0131","n","s","e","r","t">>,
      <<"R","E","V","O","U+212A","E">>,
      <<"U+00E9">>,
      <<"_">>,
      <<" ">>,
      <<";">>,
      <<"'">> }

ValStart ==
    /\ sql = <<>>
    /\ npieces = 0
    /\ vres = "pending"
    /\ vkeyword = <<>>

\* the caller extends the text it is about to submit
Compose ==
    /\ vres = "pending"
    /\ npieces < MaxPieces
    /\ \E p \in Pieces : sql' = sql \o p
    /\ npieces' = npieces + 1
    /\ UNCHANGED <<vres, vkeyword>>
    /\ UNCHANGED nonValVars

\* validate_query(sql)
ValidateQuery ==
    /\ vres = "pending"
    /\ npieces > 0
    /\ vres' = validate_query(sql)
    /\ vkeyword' = KeywordSearch(sql)
    /\ UNCHANGED <<sql, npieces>>
    /\ UNCHANGED nonValVars

----------------------------------------------------------------------------
(* OracleConnector: connect, close and execute_query over the shared pool *)

\* connect(): create_pool_async(min=1, max=5)
PoolMin == 1

PoolMax == 5

Slots == 1..PoolMax

NoConn == <<0, 0>>

\* connections of pool g that are checked out
Busy(g) == { held[c] : c \in env.callers } \cap ({g} \X Slots)

FreeSlots(g) == { k \in Slots : <<g, k>> \notin Busy(g) }

\* the state of a connector before any call, for the inputs e
ExecStart(e) ==
    /\ env = e
    /\ pool = 0
    /\ npools = 0
    /\ openPools = {}
    /\ closing = 0
    /\ pc = [c \in e.callers |-> "idle"]
    /\ csql = [c \in e.callers |-> <<>>]
    /\ cpool = [c \in e.callers |-> 0]
    /\ held = [c \in e.callers |-> NoConn]
    /\ acq = [c \in e.callers |-> 0]
    /\ delay = [c \in e.callers |-> 0]
    /\ waited = [c \in e.callers |-> 0]
    /\ avail = [c \in e.callers |-> 0]
    /\ res = [c \in e.callers |-> "none"]
    /\ ret = [c \in e.callers |-> 0]
    /\ stalled = [c \in e.callers |-> FALSE]

\* connect(): self._pool = create_pool_async(...), whatever self._pool was
Connect ==
    /\ npools < env.maxPools
    /\ npools' = npools + 1
    /\ pool' = npools + 1
    /\ openPools' = openPools \cup {npools + 1}
    /\ UNCHANGED <<env, timeout_seconds, max_rows, pc, csql, cpool, held, acq,
                   delay, waited, avail, res, ret>>
    /\ UNCHANGED <<stalled, closing>>
    /\ UNCHANGED nonExecVars

\* close() up to its suspension point: if self._pool: the close() of that
\* pool is called and awaited. One close() call is in flight at a time.
CloseBegin ==
    /\ pool # 0
    /\ closing = 0
    /\ closing' = pool
    /\ UNCHANGED <<env, timeout_seconds, max_rows, pool, npools, openPools, pc,
                   csql, cpool, held, acq, delay, waited, avail, res, ret>>
    /\ UNCHANGED stalled
    /\ UNCHANGED nonExecVars

\* close() resumes: the pool it awaited is closed and self._pool = None,
\* whatever self._pool has become meanwhile. The pool refuses to close while
\* one of its connections is checked out; the error leaves self._pool as it
\* is.
CloseEnd ==
    /\ closing # 0
    /\ closing' = 0
    /\ IF Busy(closing) = {}
       THEN /\ openPools' = openPools \ {closing}
            /\ pool' = 0
       ELSE UNCHANGED <<pool, openPools>>
    /\ UNCHANGED <<env, timeout_seconds, max_rows, npools, pc, csql, cpool, held,
                   acq, delay, waited, avail, res, ret>>
    /\ UNCHANGED stalled
    /\ UNCHANGED nonExecVars

\* execute_query up to its first suspension point: validate_query(sql),
\* the pool-presence check, then self._pool.acquire().  Calls are numbered
\* in the order in which they are made.
StartCallPoolCheckFirst(c) ==
    /\ pc[c] = "idle"
    /\ \A d \in env.callers : d < c => pc[d] # "idle"
    /\ \E s \in env.sqls :
         /\ csql' = [csql EXCEPT ![c] = s]
         /\ cpool' = [cpool EXCEPT ![c] = pool]
         /\ IF pool = 0
            THEN /\ res' = [res EXCEPT ![c] = "NotConnected"]
                 /\ pc' = [pc EXCEPT ![c] = "done"]
            ELSE IF validate_query(s) # "ok"
            THEN /\ res' = [res EXCEPT ![c] = validate_query(s)]
                 /\ pc' = [pc EXCEPT ![c] = "done"]
            ELSE /\ pc' = [pc EXCEPT ![c] = "acquiring"]
                 /\ UNCHANGED res
         /\ stalled' = [stalled EXCEPT ![c] =
                           validate_query(s) = "ok" /\ pool # 0 /\ FreeSlots(pool) = {}]
    /\ UNCHANGED <<env, timeout_seconds, max_rows, pool, npools, openPools, held,
                   acq, delay, waited, avail, ret, closing>>
    /\ UNCHANGED nonExecVars

StartCall(c) ==
    /\ pc[c] = "idle"
    /\ \A d \in env.callers : d < c => pc[d] # "idle"
    /\ \E s \in env.sqls :
         /\ csql' = [csql EXCEPT ![c] = s]
         /\ cpool' = [cpool EXCEPT ![c] = pool]
         /\ IF validate_query(s) # "ok"
            THEN /\ res' = [res EXCEPT ![c] = validate_query(s)]
                 /\ pc' = [pc EXCEPT ![c] = "done"]
            ELSE IF pool = 0
            THEN /\ res' = [res EXCEPT ![c] = "NotConnected"]
                 /\ pc' = [pc EXCEPT ![c] = "done"]
            ELSE /\ pc' = [pc EXCEPT ![c] = "acquiring"]
                 /\ UNCHANGED res
         /\ stalled' = [stalled EXCEPT ![c] =
                           validate_query(s) = "ok" /\ pool # 0 /\ FreeSlots(pool) = {}]
    /\ UNCHANGED <<env, timeout_seconds, max_rows, pool, npools, openPools, held,
                   acq, delay, waited, avail, ret, closing>>
    /\ UNCHANGED nonExecVars

\* async with self._pool.acquire() as conn: the pool hands out a free
\* connection; with none free the call stays suspended here.  Then
\* conn.cursor() and cursor.execute(sql, params) is issued to the backend.
Acquire(c) ==
    /\ pc[c] = "acquiring"
    /\ cpool[c] \in openPools
    /\ \E k \in FreeSlots(cpool[c]) : held' = [held EXCEPT ![c] = <<cpool[c], k>>]
    /\ acq' = [acq EXCEPT ![c] = @ + 1]
    /\ \E d \in env.delays : delay' = [delay EXCEPT ![c] = d]
    /\ waited' = [waited EXCEPT ![c] = 0]
    /\ pc' = [pc EXCEPT ![c] = "executing"]
    /\ UNCHANGED <<env, timeout_seconds, max_rows, pool, npools, openPools, csql,
                   cpool, avail, res, ret>>
    /\ UNCHANGED <<stalled, closing>>
    /\ UNCHANGED nonExecVars

\* acquire() on a pool that was closed meanwhile raises
AcquireFails(c) ==
    /\ pc[c] = "acquiring"
    /\ cpool[c] \notin openPools
    /\ res' = [res EXCEPT ![c] = "DatabaseError"]
    /\ pc' = [pc EXCEPT ![c] = "done"]
    /\ UNCHANGED <<env, timeout_seconds, max_rows, pool, npools, openPools, csql,
                   cpool, held, acq, delay, waited, avail, ret>>
    /\ UNCHANGED <<stalled, closing>>
    /\ UNCHANGED nonExecVars

\* time passes while the call awaits cursor.execute: no deadline is set
Tick(c) ==
    /\ pc[c] = "executing"
    /\ waited[c] < delay[c]
    /\ waited' = [waited EXCEPT ![c] = @ + 1]
    /\ UNCHANGED <<env, timeout_seconds, max_rows, pool, npools, openPools, pc,
                   csql, cpool, held, acq, delay, avail, res, ret>>
    /\ UNCHANGED <<stalled, closing>>
    /\ UNCHANGED nonExecVars

\* cursor.execute raises a database error: both async with blocks exit and
\* the connection goes back to the pool
ExecuteFailsLeak(c) ==
    /\ pc[c] = "executing"
    /\ res' = [res EXCEPT ![c] = "DatabaseError"]
    /\ pc' = [pc EXCEPT ![c] = "done"]
    /\ UNCHANGED <<env, timeout_seconds, max_rows, pool, npools, openPools, csql,
                   cpool, held, acq, delay, waited, avail, ret>>
    /\ UNCHANGED <<stalled, closing>>
    /\ UNCHANGED nonExecVars

ExecuteFails(c) ==
    /\ pc[c] = "executing"
    /\ res' = [res EXCEPT ![c] = "DatabaseError"]
    /\ held' = [held EXCEPT ![c] = NoConn]
    /\ pc' = [pc EXCEPT ![c] = "done"]
    /\ UNCHANGED <<env, timeout_seconds, max_rows, pool, npools, openPools, csql,
                   cpool, acq, delay, waited, avail, ret>>
    /\ UNCHANGED <<stalled, closing>>
    /\ UNCHANGED nonExecVars

\* the backend completes the statement: cursor.execute returns, the column
\* names are read from cursor.description, rows = await cursor.fetchall()
\* takes every row of the result set, the rows are returned as dicts and
\* both async with blocks exit, releasing the connection
FetchAll(c) ==
    /\ pc[c] = "executing"
    /\ waited[c] = delay[c]
    /\ \E n \in env.rowcounts :
         /\ avail' = [avail EXCEPT ![c] = n]
         /\ ret' = [ret EXCEPT ![c] = n]
    /\ res' = [res EXCEPT ![c] = "rows"]
    /\ held' = [held EXCEPT ![c] = NoConn]
    /\ pc' = [pc EXCEPT ![c] = "done"]
    /\ UNCHANGED <<env, timeout_seconds, max_rows, pool, npools, openPools, csql,
                   cpool, acq, delay, waited>>
    /\ UNCHANGED <<stalled, closing>>
    /\ UNCHANGED nonExecVars

----------------------------------------------------------------------------
(* Data Moat: classification levels, role clearances and the role filter *)

PUBLIC == <<"P","U","B","L","I","C">>

INTERNAL == <<"I","N","T","E","R","N","A","L">>

RESTRICTED == <<"R","E","S","T","R","I","C","T","E","D">>

SECRET == <<"S","E","C","R","E","T">>

TOP_SECRET == <<"T","O","P","_","S","E","C","R","E","T">>

\* higher index = more restricted; Python indexes the list from 0
CLASSIFICATION_LEVELS == <<PUBLIC, INTERNAL, RESTRICTED, SECRET, TOP_SECRET>>

ROLE_CLEARANCE ==
    [r \in {"viewer", "analyst", "service", "admin"} |->
        CASE r = "viewer" -> 1
          [] r = "analyst" -> 2
          [] r = "service" -> 3
          [] r = "admin" -> 4]

\* get_classification_level: the index of classification.upper(), 1 if unknown
get_classification_level(classification) ==
    LET up == UpperStr(classification)
    IN  IF \E i \in 1..Len(CLASSIFICATION_LEVELS) : CLASSIFICATION_LEVELS[i] = up
        THEN (CHOOSE i \in 1..Len(CLASSIFICATION_LEVELS) :
                 CLASSIFICATION_LEVELS[i] = up) - 1
        ELSE 1

\* the dict built from the registry: name.upper() -> classification, a later
\* object replacing an earlier one of the same name; an object without a
\* classification counts as INTERNAL
BuildLookup(reg) ==
    [n \in { UpperStr(reg[i].name) : i \in 1..Len(reg) } |->
        LET last == CHOOSE i \in 1..Len(reg) :
                       /\ UpperStr(reg[i].name) = n
                       /\ \A j \in (i + 1)..Len(reg) : UpperStr(reg[j].name) # n
        IN  IF reg[last].has_classification
            THEN reg[last].classification
            ELSE INTERNAL]

\* "security_metadata": null on a table dict, written in the place of the
\* nested classification; table.get("security_metadata", {}) then gives None
NullMetadata == <<"None">>

\* None.get(...): AttributeError, raised instead of a classification
ATTRIBUTE_ERROR == <<"AttributeError">>

\* a table dict carries its own classification (a missing key and an empty
\* value are the same to dict.get(...) used as a condition)
HasInline(table) == table.sm_classification # <<>> \/ table.classification # <<>>

\* the flat key read before the nested one
resolve_classification_flat_first(table, lookup) ==
    IF table.classification # <<>> THEN table.classification
    ELSE IF table.sm_classification # <<>> THEN table.sm_classification
    ELSE IF DOMAIN lookup # {}
    THEN LET name == UpperStr(IF table.table_name # <<>> THEN table.table_name
                              ELSE table.name)
         IN  IF name \in DOMAIN lookup THEN lookup[name] ELSE INTERNAL
    ELSE INTERNAL

\* _resolve_classification; lookup is the dict, or <<>> for None
resolve_classification(table, lookup) ==
    IF table.sm_classification = NullMetadata THEN ATTRIBUTE_ERROR
    ELSE IF table.sm_classification # <<>> THEN table.sm_classification
    ELSE IF table.classification # <<>> THEN table.classification
    ELSE IF DOMAIN lookup # {}
    THEN LET name == UpperStr(IF table.table_name # <<>> THEN table.table_name
                              ELSE table.name)
         IN  IF name \in DOMAIN lookup THEN lookup[name] ELSE INTERNAL
    ELSE INTERNAL

RECURSIVE FilterLoopStrict(_, _, _, _)
FilterLoopStrict(tables, i, lookup, max_level) ==
    IF i > Len(tables) THEN <<>>
    ELSE LET table_level ==
                 get_classification_level(resolve_classification(tables[i], lookup))
         IN  (IF table_level < max_level THEN <<tables[i]>> ELSE <<>>)
                 \o FilterLoopStrict(tables, i + 1, lookup, max_level)

\* the level compared with == instead of <=
RECURSIVE FilterLoopExact(_, _, _, _)
FilterLoopExact(tables, i, lookup, max_level) ==
    IF i > Len(tables) THEN <<>>
    ELSE LET table_level ==
                 get_classification_level(resolve_classification(tables[i], lookup))
         IN  (IF table_level = max_level THEN <<tables[i]>> ELSE <<>>)
                 \o FilterLoopExact(tables, i + 1, lookup, max_level)

\* the loop of filter_tables_by_role from table i on
RECURSIVE FilterLoop(_, _, _, _)
FilterLoop(tables, i, lookup, max_level) ==
    IF i > Len(tables) THEN <<>>
    ELSE LET table_level ==
                 get_classification_level(resolve_classification(tables[i], lookup))
         IN  (IF table_level <= max_level THEN <<tables[i]>> ELSE <<>>)
                 \o FilterLoop(tables, i + 1, lookup, max_level)

\* an unknown role given the viewer's clearance
filter_tables_by_role_default_viewer(tables, user_role, reg) ==
    LET max_level == IF user_role \in DOMAIN ROLE_CLEARANCE
                     THEN ROLE_CLEARANCE[user_role] ELSE ROLE_CLEARANCE["viewer"]
        needs_lookup == \E i \in 1..Len(tables) : ~HasInline(tables[i])
        lookup == IF needs_lookup THEN BuildLookup(reg) ELSE <<>>
    IN  FilterLoop(tables, 1, lookup, max_level)

\* the registry read only when every table lacks a classification of its own
filter_tables_by_role_lookup_if_all(tables, user_role, reg) ==
    LET max_level == IF user_role \in DOMAIN ROLE_CLEARANCE
                     THEN ROLE_CLEARANCE[user_role] ELSE 0
        needs_lookup == \A i \in 1..Len(tables) : ~HasInline(tables[i])
        lookup == IF needs_lookup THEN BuildLookup(reg) ELSE <<>>
    IN  FilterLoop(tables, 1, lookup, max_level)

\* filter_tables_by_role(tables, user_role), reg being the registry on disk
filter_tables_by_role(tables, user_role, reg) ==
    LET max_level == IF user_role \in DOMAIN ROLE_CLEARANCE
                     THEN ROLE_CLEARANCE[user_role] ELSE 0
        needs_lookup == \E i \in 1..Len(tables) : ~HasInline(tables[i])
        lookup == IF needs_lookup THEN BuildLookup(reg) ELSE <<>>
    IN  IF \E i \in 1..Len(tables) : tables[i].sm_classification = NullMetadata
        THEN ATTRIBUTE_ERROR
        ELSE FilterLoop(tables, 1, lookup, max_level)

----------------------------------------------------------------------------
(* Filter harness: candidate lists, roles and registries *)

MaxTables == 3

EMPLOYEES == <<"E","M","P","L","O","Y","E","E","S">>

SALARIES == <<"S","A","L","A","R","I","E","S">>

HOLIDAYS == <<"H","O","L","I","D","A","Y","S">>

\* a schema JSON object: "name" and security_metadata.classification
Inline(n, c) ==
    [table_name |-> <<>>, name |-> n, sm_classification |-> c,
     classification |-> <<>>]

\* a Qdrant payload: "table_name" and a flat classification
Flat(n, c) ==
    [table_name |-> n, name |-> <<>>, sm_classification |-> <<>>,
     classification |-> c]

\* an indexer result: "table_name" only
Bare(n) ==
    [table_name |-> n, name |-> <<>>, sm_classification |-> <<>>,
     classification |-> <<>>]

Candidates ==
    { Inline(HOLIDAYS, PUBLIC), Inline(EMPLOYEES, INTERNAL),
      Inline(SALARIES, SECRET), Inline(SALARIES, TOP_SECRET),
      Flat(EMPLOYEES, RESTRICTED),
      Flat(SALARIES, <<"U+017F","e","c","r","e","t">>),
      Flat(HOLIDAYS, <<"O","P","E","N">>),
      Bare(SALARIES), Bare(<<"e","m","p","l","o","y","e","e","s">>),
      Bare(HOLIDAYS) }

RegistryObject(n, c) ==
    [name |-> n, has_classification |-> c # <<>>, classification |-> c]

\* the registry file is absent (load_schema_metadata returns []), or lists
\* some objects. No producer of the repository writes a null
\* security_metadata (apply_data_classification.py creates a dict), so no
\* candidate carries NullMetadata
Registries ==
    { <<>>,
      <<RegistryObject(SALARIES, SECRET), RegistryObject(EMPLOYEES, RESTRICTED),
        RegistryObject(HOLIDAYS, <<>>)>>,
      <<RegistryObject(<<"U+017F","a","l","a","r","i","e","s">>, PUBLIC),
        RegistryObject(SALARIES, TOP_SECRET)>> }

Roles == {"viewer", "analyst", "service", "admin", "auditor", "ADMIN"}

MoatStart ==
    /\ mtables = <<>>
    /\ mrole \in Roles
    /\ mfiltered = <<>>
    /\ mdone = FALSE
    /\ mrefiltered = <<>>
    /\ mredone = FALSE

\* the caller collects one more candidate
AddCandidate ==
    /\ ~mdone
    /\ Len(mtables) < MaxTables
    /\ \E t \in Candidates : mtables' = Append(mtables, t)
    /\ UNCHANGED <<mrole, mfiltered, mdone, mrefiltered, mredone>>
    /\ UNCHANGED nonMoatVars

\* filter_tables_by_role(tables, user_role)
FilterTables ==
    /\ ~mdone
    /\ mfiltered' = filter_tables_by_role(mtables, mrole, schema)
    /\ mdone' = TRUE
    /\ UNCHANGED <<mtables, mrole, mrefiltered, mredone>>
    /\ UNCHANGED nonMoatVars

\* the caller hands the list it got back to filter_tables_by_role once more,
\* with the same role
FilterAgain ==
    /\ mdone
    /\ ~mredone
    /\ mrefiltered' = filter_tables_by_role(mfiltered, mrole, schema)
    /\ mredone' = TRUE
    /\ UNCHANGED <<mtables, mrole, mfiltered, mdone>>
    /\ UNCHANGED nonMoatVars

----------------------------------------------------------------------------
(* Audit trail: AuditLogger *)

JWT_EXPIRATION_HOURS == 24

MaxAuditEvents == 3

MaxAuditDays == 1

\* the dates the clock shows, as day numbers
AuditDays == 0..MaxAuditDays

\* strftime("%Y-%m-%d") of an instant: its UTC date, as a day number
DateOf(t) == t \div 24

\* a datetime of a query: its instant and whether it carries a UTC offset
\* (aware) or not (naive)
Date(at, aware) == [given |-> TRUE, at |-> at, aware |-> aware]

\* no start_date or end_date given
NoDate == [given |-> FALSE, at |-> 0, aware |-> FALSE]

\* a < b of two datetimes: an aware and a naive one cannot be compared
\* (TypeError)
DateLess(a, b) ==
    IF a.aware # b.aware THEN "TypeError"
    ELSE IF a.at < b.at THEN "True" ELSE "False"

\* str.lower() of every character it changes; I with dot becomes 'i' and a
\* combining dot
LowerOf ==
    [c \in { UpperLetters[i] : i \in 1..26 } |->
        <<LowerLetters[CHOOSE i \in 1..26 : UpperLetters[i] = c]>>]
    @@ ("U+212A" :> <<"k">>) @@ ("U+00C9" :> <<"U+00E9">>)
    @@ ("U+0130" :> <<"i", "U+0307">>)

\* str.lower() on one character
LowerChar(c) == IF c \in DOMAIN LowerOf THEN LowerOf[c] ELSE <<c>>

RECURSIVE LowerFrom(_, _)
LowerFrom(s, i) ==
    IF i > Len(s) THEN <<>> ELSE LowerChar(s[i]) \o LowerFrom(s, i + 1)

\* str.lower()
LowerStr(s) ==
    IF \A i \in 1..Len(s) : Len(LowerChar(s[i])) = 1
    THEN [i \in 1..Len(s) |-> LowerChar(s[i])[1]]
    ELSE LowerFrom(s, 1)

\* sub in s
Contains(s, sub) ==
    \E i \in 1..(Len(s) - Len(sub) + 1) : SubSeq(s, i, i + Len(sub) - 1) = sub

sensitive_keys ==
    { <<"p","a","s","s","w","o","r","d">>,
      <<"t","o","k","e","n">>,
      <<"s","e","c","r","e","t">>,
      <<"a","p","i","_","k","e","y">>,
      <<"a","p","i","k","e","y">>,
      <<"a","u","t","h","o","r","i","z","a","t","i","o","n">>,
      <<"a","u","t","h">>,
      <<"c","r","e","d","e","n","t","i","a","l">>,
      <<"s","s","n">>,
      <<"c","r","e","d","i","t","_","c","a","r","d">>,
      <<"c","a","r","d","_","n","u","m","b","e","r">> }

\* any(sensitive in key.lower() for sensitive in sensitive_keys)
is_sensitive(key) == \E sensitive \in sensitive_keys : Contains(LowerStr(key), sensitive)

\* len(value) > 1000
MAX_VALUE_CHARS == 1000

\* len("...[truncated]")
TRUNCATED_CHARS == 14

\* a value of details: a string (its text and its length), a dict (its
\* items in order), a list (its elements, as items without key) or any other
\* scalar
Str(text, n) == [kind |-> "str", v |-> <<text>>, len |-> n, items |-> <<>>]

Dict(items) == [kind |-> "dict", v |-> <<>>, len |-> 0, items |-> items]

List(items) == [kind |-> "list", v |-> <<>>, len |-> 0, items |-> items]

Scalar(text) == [kind |-> "other", v |-> <<text>>, len |-> 0, items |-> <<>>]

Item(key, val) == [key |-> key, val |-> val]

REDACTED == Str("[REDACTED]", 10)

\* _sanitize_details on the items of a dict
RECURSIVE sanitize_details(_)
sanitize_details(details) ==
    [i \in 1..Len(details) |->
        LET key == details[i].key
            value == details[i].val
        IN  IF is_sensitive(key) THEN Item(key, REDACTED)
            ELSE IF value.kind = "dict"
            THEN Item(key, Dict(sanitize_details(value.items)))
            ELSE IF value.kind = "str" /\ value.len > MAX_VALUE_CHARS
            THEN Item(key, [value EXCEPT
                               !.v = Append(@, "...[truncated]"),
                               !.len = MAX_VALUE_CHARS + TRUNCATED_CHARS])
            ELSE details[i]]

\* the details a caller may hand to log()
DetailsPassword == <<Item(<<"p","a","s","s","w","o","r","d">>, Str("x", 1))>>

DetailsNested ==
    <<Item(<<"u","s","e","r">>, Dict(<<Item(<<"A","P","I","_","U+212A","e","y">>, Str("k", 1)),
                          Item(<<"n","a","m","e">>, Str("n", 1))>>)),
      Item(<<"n","o","t","e">>, Str("long", MAX_VALUE_CHARS + 1)),
      Item(<<"t","i","t","l","e">>, Str("t", MAX_VALUE_CHARS))>>

DetailsList ==
    <<Item(<<"i","t","e","m","s">>, List(<<Item(<<>>, Dict(<<Item(<<"p","a","s","s","w","o","r","d">>, Str("x", 1))>>))>>))>>

DetailInputs == { DetailsPassword, DetailsNested, DetailsList }

\* the verified payload of a caller's token; NoPayload without a valid token
NoPayload == [sub |-> "None", role |-> "None"]

AuditCallers ==
    { [sub |-> "user_001", role |-> "analyst"],
      [sub |-> "user_002", role |-> "viewer"],
      [sub |-> "user_003", role |-> "admin"] }

NoCall ==
    [op |-> "none", caller |-> NoPayload, valid |-> FALSE, status |-> 0,
     raised |-> FALSE, events |-> <<>>, token |-> FALSE]

\* the service starts at hour h of day 0
AuditStartAt(h) ==
    /\ utc_now = h
    /\ ad_files = [d \in AuditDays |-> <<>>]
    /\ ad_counter = 0
    /\ ad_last = NoCall

\* the service starts at midnight or at noon
AuditStart == \E h \in {0, 12} : AuditStartAt(h)

\* the service started at midnight
AuditIdle == AuditStartAt(0)

\* the AuditEvent log() builds: the id from the date and the counter after
\* its increment, the timestamp from the clock, the details sanitized
new_event(event_type, user_id, details, success) ==
    [id |-> <<DateOf(utc_now), ad_counter + 1>>, timestamp |-> Date(utc_now, TRUE),
     event_type |-> event_type, user_id |-> user_id,
     details |-> sanitize_details(details), success |-> success]

\* the file opened with mode "w"
write_event_truncating(file, event) == <<event>>

\* _write_event: open(log_file, "a") and write one line
write_event(file, event) == Append(file, event)

\* log(): the event is built, which advances the counter, and written to the
\* file of the current date; when the file cannot be opened or written,
\* open() or write() raises and nothing is added
Log(event, writable) ==
    /\ ad_counter' = ad_counter + 1
    /\ ad_files' = IF writable
                   THEN [ad_files EXCEPT ![DateOf(utc_now)] = write_event(@, event)]
                   ELSE ad_files

\* the filters of query(), a filter that is None or empty not applied; the
\* event is skipped as well when a comparison raises
Matches(event, start_date, end_date, event_type, user_id) ==
    /\ ~(start_date.given /\ DateLess(event.timestamp, start_date) # "False")
    /\ ~(end_date.given /\ DateLess(end_date, event.timestamp) # "False")
    /\ ~(event_type # "None" /\ event.event_type # event_type)
    /\ ~(user_id \notin {"None", ""} /\ event.user_id # user_id)

\* the loop of query() over the files from day d down, newest first: the
\* matching events of a file are added in file order, and the loop stops
\* once there are enough of them
RECURSIVE QueryFiles(_, _, _, _, _, _, _, _)
QueryFiles(files, d, events, start_date, end_date, event_type, user_id, enough) ==
    IF d < 0 THEN events
    ELSE LET found == events \o SelectSeq(files[d],
                         LAMBDA e : Matches(e, start_date, end_date,
                                            event_type, user_id))
         IN  IF files[d] # <<>> /\ Len(found) >= enough THEN found
             ELSE QueryFiles(files, d - 1, found, start_date, end_date,
                             event_type, user_id, enough)

\* query(): events[offset : offset + limit]
query(files, start_date, end_date, event_type, user_id, limit, offset) ==
    LET events == QueryFiles(files, MaxAuditDays, <<>>, start_date, end_date,
                             event_type, user_id, offset + limit)
        last == IF offset + limit < Len(events) THEN offset + limit
                ELSE Len(events)
    IN  SubSeq(events, offset + 1, last)

\* log() called with details of the caller's choice
AuditLog ==
    /\ ad_counter < MaxAuditEvents
    /\ \E details \in DetailInputs, writable \in BOOLEAN :
         /\ Log(new_event("data.query.executed", "user_002", details, TRUE), writable)
         /\ ad_last' = [NoCall EXCEPT !.op = "log", !.raised = ~writable]
    /\ UNCHANGED utc_now
    /\ UNCHANGED nonAuditVars

\* the arguments of a query() call: start_date, end_date, event_type,
\* user_id, limit, offset
AuditQueries ==
    { <<NoDate, NoDate, "None", "None", 2, 0>>,
      <<Date(12, TRUE), NoDate, "None", "None", 2, 0>>,
      <<NoDate, Date(24, TRUE), "None", "user_002", 2, 0>>,
      <<NoDate, Date(47, FALSE), "None", "None", 2, 0>>,
      <<Date(24, TRUE), NoDate, "None", "user_001", 1, 0>>,
      <<NoDate, Date(0, TRUE), "auth.login.failure", "None", 1, 1>>,
      <<NoDate, NoDate, "None", "user_002", 1, 1>> }

\* query() called with filters of the caller's choice
AuditQuery ==
    /\ \E q \in AuditQueries :
         ad_last' = [NoCall EXCEPT
                        !.op = "query",
                        !.events = query(ad_files, q[1], q[2], q[3], q[4],
                                         q[5], q[6])]
    /\ UNCHANGED <<utc_now, ad_files, ad_counter>>
    /\ UNCHANGED nonAuditVars

\* half a day passes: tokens age, and log() stamps its events with the
\* new time and writes them to the file of the new date
ClockTick ==
    /\ DateOf(utc_now + JWT_EXPIRATION_HOURS \div 2) <= MaxAuditDays
    /\ utc_now' = utc_now + JWT_EXPIRATION_HOURS \div 2
    /\ UNCHANGED <<authVars, auditVars>>
    /\ UNCHANGED nonAuthAuditVars

----------------------------------------------------------------------------
(* Authentication of a request *)

NoToken == [signed |-> FALSE, expired |-> FALSE, role |-> "None", sub |-> "None"]

\* UserRole
UserRoles == {"admin", "analyst", "viewer", "service"}

\* the subject of the tokens a request may carry, one user per role
SubjectOf ==
    [r \in UserRoles \cup {"root"} |->
        CASE r = "analyst" -> "user_001"
          [] r = "viewer" -> "user_002"
          [] r = "admin" -> "user_003"
          [] r = "service" -> "user_004"
          [] r = "root" -> "user_005"]

\* tokens a request may carry: issued by create_access_token and still
\* valid, issued and expired, or not signed with the server's key
Tokens ==
    { [signed |-> TRUE, expired |-> e, role |-> r, sub |-> SubjectOf[r]] :
         e \in BOOLEAN, r \in UserRoles }
       \cup
    { [signed |-> FALSE, expired |-> e, role |-> r, sub |-> SubjectOf[r]] :
         e \in BOOLEAN, r \in UserRoles \cup {"root"} }

\* verify_token: jwt.decode checks the signature, then the expiry; the
\* result is the payload or the HTTPException raised, whose detail for a bad
\* signature ends with the text of the jwt library's exception
verify_token(token) ==
    IF ~token.signed
    THEN [ok |-> FALSE, status |-> 401,
          detail |-> "Invalid token: Signature verification failed"]
    ELSE IF token.expired
    THEN [ok |-> FALSE, status |-> 401, detail |-> "Token has expired"]
    ELSE [ok |-> TRUE, role |-> token.role, sub |-> token.sub]

\* get_current_user_optional: None without credentials, None when
\* verify_token raises HTTPException, else the verified user
get_current_user_optional(credentials) ==
    IF credentials = NoToken THEN [ok |-> TRUE, role |-> "None", sub |-> "None"]
    ELSE IF verify_token(credentials).ok THEN verify_token(credentials)
    ELSE [ok |-> TRUE, role |-> "None", sub |-> "None"]

----------------------------------------------------------------------------
(* OracleSQLAgent.run, called directly or behind POST /v1/chat *)

\* str.strip()
Strip(s) ==
    LET keep == { i \in 1..Len(s) : ~IsSpace(s[i]) }
    IN  IF keep = {} THEN <<>>
        ELSE SubSeq(s, Min(keep), CHOOSE i \in keep : \A j \in keep : j <= i)

\* effective_role = user_role or "viewer"
effective_role_admin(user_role) ==
    IF user_role \in {"None", ""} THEN "admin" ELSE user_role

effective_role(user_role) ==
    IF user_role \in {"None", ""} THEN "viewer" ELSE user_role

\* the user_role argument chat() hands to run(): chat() passes the question
\* only, so run() sees its default, None
chat_user_role(user) == "None"

MaxChatTables == 2

SelectFrom(n) ==
    <<"S","E","L","E","C","T"," ","*"," ","F","R","O","M"," ">> \o n

\* what the SQL generator may answer, whatever the prompt
LlmAnswers ==
    { SelectFrom(EMPLOYEES), SelectFrom(SALARIES) \o <<"\r", "\n">>,
      SelectFrom(HOLIDAYS),
      <<"D","R","O","P"," ","T","A","B","L","E"," ">> \o EMPLOYEES }

\* what the schema index may return
ChatCandidates ==
    { Bare(EMPLOYEES), Bare(SALARIES), Flat(HOLIDAYS, PUBLIC),
      Flat(EMPLOYEES, RESTRICTED), Flat(SALARIES, TOP_SECRET) }

ChatRegistries ==
    { <<>>,
      <<RegistryObject(SALARIES, SECRET), RegistryObject(EMPLOYEES, INTERNAL),
        RegistryObject(HOLIDAYS, PUBLIC)>> }

SeqsUpTo(S, n) == UNION { [1..k -> S] : k \in 0..n }

ChatStart ==
    /\ ch_pc = "idle"
    /\ ch_caller = "none"
    /\ ch_token = NoToken
    /\ ch_user = "None"
    /\ ch_cands = <<>>
    /\ ch_tables = <<>>
    /\ ch_prompt = <<>>
    /\ ch_sql = <<>>
    /\ ch_results = "None"
    /\ ch_error = "None"
    /\ ch_status = 0
    /\ ch_user_role = "None"

\* a request arrives: the dependency resolves the user, chat() calls
\* _agent.run(request.question), run() searches the index, applies the role
\* filter when the list is not empty, builds the prompt and awaits the
\* generator
ChatArrive ==
    /\ ch_pc = "idle"
    /\ \E tok \in Tokens \cup {NoToken}, found \in SeqsUpTo(ChatCandidates, MaxChatTables) :
         LET user == get_current_user_optional(tok)
             relevant ==
                 IF found # <<>>
                 THEN filter_tables_by_role(
                          found, effective_role(chat_user_role(user.role)), schema)
                 ELSE found
         IN  /\ ch_token' = tok
             /\ ch_user' = user.role
             /\ ch_user_role' = chat_user_role(user.role)
             /\ ch_cands' = found
             /\ ch_tables' = relevant
             /\ ch_prompt' = relevant
             /\ ch_pc' = "generating"
             /\ ch_caller' = "chat"
    /\ UNCHANGED <<ch_sql, ch_results, ch_error, ch_status>>
    /\ UNCHANGED nonChatVars

\* a request arrives while _agent is None: the dependency resolves the user
\* and chat() answers 503 before it logs anything
ChatUnavailable ==
    /\ ch_pc = "idle"
    /\ \E tok \in Tokens \cup {NoToken} :
         /\ ch_token' = tok
         /\ ch_user' = get_current_user_optional(tok).role
    /\ ch_caller' = "chat"
    /\ ch_pc' = "responded"
    /\ ch_status' = 503
    /\ ch_error' = "Agent not initialized"
    /\ UNCHANGED <<ch_cands, ch_tables, ch_prompt, ch_sql, ch_results, ch_user_role>>
    /\ UNCHANGED nonChatVars

\* the user_role arguments run() may get: left out, empty, a UserRole value
\* or any other string
RunRoles == UserRoles \cup {"None", "", "auditor"}

\* the prompt written from the search results, the filter applied afterwards
AgentRunPromptFirst ==
    /\ ch_pc = "idle"
    /\ \E r \in RunRoles, found \in SeqsUpTo(ChatCandidates, MaxChatTables) :
         /\ ch_user_role' = r
         /\ ch_cands' = found
         /\ ch_prompt' = found
         /\ ch_tables' = IF found # <<>>
                         THEN filter_tables_by_role(found, effective_role(r), schema)
                         ELSE found
         /\ ch_pc' = "generating"
         /\ ch_caller' = "run"
    /\ UNCHANGED <<ch_token, ch_user, ch_status, ch_sql, ch_results, ch_error>>
    /\ UNCHANGED nonChatVars

\* run(question, user_role=r) called directly: it searches the index,
\* applies the role filter when the list is not empty, builds the prompt
\* from the filtered list and awaits the generator
AgentRun ==
    /\ ch_pc = "idle"
    /\ \E r \in RunRoles, found \in SeqsUpTo(ChatCandidates, MaxChatTables) :
         LET relevant ==
                 IF found # <<>>
                 THEN filter_tables_by_role(found, effective_role(r), schema)
                 ELSE found
         IN  /\ ch_user_role' = r
             /\ ch_cands' = found
             /\ ch_tables' = relevant
             /\ ch_prompt' = relevant
             /\ ch_pc' = "generating"
             /\ ch_caller' = "run"
    /\ UNCHANGED <<ch_token, ch_user, ch_status, ch_sql, ch_results, ch_error>>
    /\ UNCHANGED nonChatVars

\* request.question[:200]
QUESTION_CHARS == 200

\* response.generated_sql[:500]
SQL_CHARS == 500

\* a str value of details whose text is the character sequence s
Text(s) == [kind |-> "str", v |-> s, len |-> Len(s), items |-> <<>>]

\* the "question" entry of the details chat() logs
question_item ==
    Item(<<"q","u","e","s","t","i","o","n">>, Str("question", QUESTION_CHARS))

\* the details of the QUERY_EXECUTED event of chat()
chat_details(relevant_tables, generated_sql) ==
    <<question_item,
      Item(<<"t","a","b","l","e","s","_","u","s","e","d">>,
           List([i \in 1..Len(relevant_tables) |->
                    Item(<<>>, IF relevant_tables[i].table_name = <<>>
                               THEN Scalar("None")
                               ELSE Text(relevant_tables[i].table_name))])),
      Item(<<"s","q","l","_","g","e","n","e","r","a","t","e","d">>,
           IF generated_sql = <<>> THEN Scalar("None")
           ELSE Text(SubSeq(generated_sql, 1,
                            IF Len(generated_sql) < SQL_CHARS
                            THEN Len(generated_sql) ELSE SQL_CHARS)))>>

\* run() called directly ends: it returns its AgentResponse, or the
\* exception of the generator goes to the caller
RunEnds(results, error, raised) ==
    /\ ch_results' = results
    /\ ch_error' = IF raised THEN "raised" ELSE error
    /\ ch_pc' = IF raised THEN "raised" ELSE "returned"
    /\ UNCHANGED <<ch_status, ad_files, ad_counter>>

\* chat() after run() has returned or raised. A response of run() is logged
\* as QUERY_EXECUTED and returned with status 200. An exception, that of
\* run() or that of this audit.log() call, is logged as QUERY_BLOCKED and
\* answered 400 with the text of the exception; when this second
\* audit.log() call raises too, nothing catches it and the answer is 500.
\* Every audit.log() call advances the event counter before it writes.
ChatRespond(results, error, generated_sql, raised) ==
    LET user == get_current_user_optional(ch_token)
        executed == new_event("data.query.executed", user.sub,
                              chat_details(ch_tables, generated_sql),
                              error = "None")
        blocked(n) == [new_event("data.query.blocked", user.sub,
                                 <<question_item>>, FALSE)
                          EXCEPT !.id = <<DateOf(utc_now), ad_counter + n>>]
    IN  /\ ch_pc' = "responded"
        /\ \E written \in BOOLEAN, written_again \in BOOLEAN :
             IF ~raised /\ written
             THEN /\ ad_counter' = ad_counter + 1
                  /\ ad_files' = [ad_files EXCEPT
                                     ![DateOf(utc_now)] = write_event(@, executed)]
                  /\ ch_results' = results
                  /\ ch_error' = error
                  /\ ch_status' = 200
             ELSE LET n == IF raised THEN 1 ELSE 2
                      w == IF raised THEN written ELSE written_again
                  IN  /\ ad_counter' = ad_counter + n
                      /\ ad_files' = IF w
                                     THEN [ad_files EXCEPT
                                              ![DateOf(utc_now)] = write_event(@, blocked(n))]
                                     ELSE ad_files
                      /\ ch_results' = "None"
                      /\ ch_error' = IF w THEN "exception_text" ELSE "None"
                      /\ ch_status' = IF w THEN 400 ELSE 500

\* run() is over, for its caller
RunDone(results, error, generated_sql, raised) ==
    IF ch_caller = "chat"
    THEN ChatRespond(results, error, generated_sql, raised)
    ELSE RunEnds(results, error, raised)

\* the generator answers; the answer is stripped and validated: a text that
\* is not read-only ends run() with an error and no results, any other text
\* is handed to execute_query
ChatGenerate ==
    /\ ch_pc = "generating"
    /\ \E answer \in LlmAnswers :
         LET generated_sql == Strip(answer)
         IN  /\ ch_sql' = generated_sql
             /\ IF validate_query(generated_sql) # "ok"
                THEN RunDone("None", "read_only", generated_sql, FALSE)
                ELSE /\ ch_pc' = "executing"
                     /\ UNCHANGED <<ch_results, ch_error, ch_status,
                                    ad_files, ad_counter>>
    /\ UNCHANGED <<ch_caller, ch_token, ch_user, ch_cands, ch_tables, ch_prompt,
                   ch_user_role>>
    /\ UNCHANGED <<utc_now, ad_last>>
    /\ UNCHANGED nonChatAuditVars

\* the generator raises: run() lets the exception through
ChatGenerateFails ==
    /\ ch_pc = "generating"
    /\ RunDone("None", "None", <<>>, TRUE)
    /\ UNCHANGED <<ch_caller, ch_token, ch_user, ch_cands, ch_tables, ch_prompt,
                   ch_sql, ch_user_role>>
    /\ UNCHANGED <<utc_now, ad_last>>
    /\ UNCHANGED nonChatAuditVars

\* execute_query returns the rows: they are the results of the response
ChatExecuteReturns ==
    /\ ch_pc = "executing"
    /\ RunDone("rows", "None", ch_sql, FALSE)
    /\ UNCHANGED <<ch_caller, ch_token, ch_user, ch_cands, ch_tables, ch_prompt,
                   ch_sql, ch_user_role>>
    /\ UNCHANGED <<utc_now, ad_last>>
    /\ UNCHANGED nonChatAuditVars

\* execute_query raises: the response carries the error and no results
ChatExecuteRaises ==
    /\ ch_pc = "executing"
    /\ RunDone("None", "execution_failed", ch_sql, FALSE)
    /\ UNCHANGED <<ch_caller, ch_token, ch_user, ch_cands, ch_tables, ch_prompt,
                   ch_sql, ch_user_role>>
    /\ UNCHANGED <<utc_now, ad_last>>
    /\ UNCHANGED nonChatAuditVars

----------------------------------------------------------------------------
(* Resolver harness: _resolve_classification called on one table dict *)

T1 == <<"T","1">>

\* a dict with every key given
TableDict(tn, n, sm, c) ==
    [table_name |-> tn, name |-> n, sm_classification |-> sm,
     classification |-> c]

\* table dicts of every shape: nested, flat, both, names only, no name
ResolveTables ==
    { Inline(SALARIES, SECRET), Inline(HOLIDAYS, PUBLIC),
      Flat(SALARIES, RESTRICTED), Flat(HOLIDAYS, <<"O","P","E","N">>),
      Flat(EMPLOYEES, <<"s","e","c","r","e","t">>),
      TableDict(SALARIES, <<>>, SECRET, PUBLIC),
      TableDict(<<>>, EMPLOYEES, PUBLIC, TOP_SECRET),
      Bare(SALARIES), Bare(<<"s","a","l","a","r","i","e","s">>),
      Bare(<<"U+017F","a","l","a","r","i","e","s">>),
      Bare(T1), Bare(HOLIDAYS),
      TableDict(<<>>, EMPLOYEES, <<>>, <<>>),
      TableDict(HOLIDAYS, SALARIES, <<>>, <<>>),
      TableDict(T1, SALARIES, <<>>, <<>>),
      TableDict(<<>>, <<>>, <<>>, <<>>) }

\* None or an empty dict, and the dicts built from some registries
ResolveLookups ==
    { BuildLookup(reg) : reg \in Registries \cup
        { <<RegistryObject(<<"s","a","l","a","r","i","e","s">>, TOP_SECRET),
            RegistryObject(EMPLOYEES, PUBLIC)>> } }

\* no classification returned yet
Pending == <<"pending">>

ResolveStart ==
    /\ rc_table \in ResolveTables
    /\ rc_lookup \in ResolveLookups
    /\ rc_result = Pending

\* no call of the resolver
ResolveIdle ==
    /\ rc_table = TableDict(<<>>, <<>>, <<>>, <<>>)
    /\ rc_lookup = <<>>
    /\ rc_result = Pending

\* _resolve_classification(table, schema_lookup)
Resolve ==
    /\ rc_result = Pending
    /\ rc_result' = resolve_classification(rc_table, rc_lookup)
    /\ UNCHANGED <<rc_table, rc_lookup>>
    /\ UNCHANGED nonResolveVars

----------------------------------------------------------------------------
(* Authentication routes: login, register, refresh, logout, current user *)

MaxTokens == 2

\* the jti values create_access_token may draw; 0 stands for a request
\* without credentials
Jtis == 1..MaxTokens

\* no token issued with this jti
NotIssued == [exp |-> 0, sub |-> "None", role |-> "None"]

\* _mock_users at start: the demo user
DemoUser == [email |-> "demo@atlas.sa", id |-> "user_001", role |-> "analyst"]

\* the addresses a register request may name
RegisterEmails == {"demo@atlas.sa", "new@atlas.sa"}

\* f"user_{len(_mock_users) + 1:03d}"
UserIdOf == <<"user_001", "user_002", "user_003">>

\* the bearer token of a request that carries the token issued with jti j,
\* as jwt.decode sees it now: signed with the server's key, expired once
\* exp <= now, with the sub and the role create_access_token wrote
BearerOf(j) ==
    IF j = 0 THEN NoToken
    ELSE [signed |-> TRUE, expired |-> au_issued[j].exp <= utc_now,
          role |-> au_issued[j].role, sub |-> au_issued[j].sub]

\* get_current_user: 401 without credentials, else verify_token
get_current_user(credentials) ==
    IF credentials = NoToken
    THEN [ok |-> FALSE, status |-> 401, detail |-> "Authentication required"]
    ELSE verify_token(credentials)

\* a request served: the endpoint, the jti of the token it carried, whether
\* its credentials were valid, its status and the jti of the token returned
Served(endpoint, jti, valid, status, issued) ==
    [endpoint |-> endpoint, jti |-> jti, valid |-> valid, status |-> status,
     issued |-> issued]

AuthStart ==
    /\ au_users = <<DemoUser>>
    /\ au_issued = [j \in Jtis |-> NotIssued]
    /\ au_loggedout = {}
    /\ au_req = Served("none", 0, FALSE, 0, 0)

\* the next jti create_access_token draws
FreshJti(j) ==
    /\ au_issued[j] = NotIssued
    /\ \A i \in Jtis : i < j => au_issued[i] # NotIssued

\* create_access_token(user_id, email, role): exp = now + JWT_EXPIRATION_HOURS
create_access_token(j, user_id, role) ==
    [au_issued EXCEPT ![j] = [exp |-> utc_now + JWT_EXPIRATION_HOURS,
                              sub |-> user_id, role |-> role]]

\* POST /api/auth/login with the credentials of a user: the token is
\* created, LOGIN_SUCCESS is logged and the token returned with status 200.
\* An exception of audit.log() is not caught by the route: the request ends
\* with status 500 and the token is never returned.
Login ==
    /\ ad_counter < MaxAuditEvents
    /\ \E j \in Jtis, i \in 1..Len(au_users), writable \in BOOLEAN :
         /\ FreshJti(j)
         /\ Log(new_event("auth.login.success", au_users[i].id, <<>>, TRUE),
                writable)
         /\ IF writable
            THEN /\ au_issued' = create_access_token(j, au_users[i].id,
                                                     au_users[i].role)
                 /\ au_req' = Served("login", 0, TRUE, 200, j)
            ELSE /\ au_req' = Served("login", 0, TRUE, 500, 0)
                 /\ UNCHANGED au_issued
    /\ UNCHANGED <<au_users, au_loggedout>>
    /\ UNCHANGED <<utc_now, ad_last>>
    /\ UNCHANGED nonAuthAuditVars

\* POST /api/auth/login with an unknown address or a wrong password:
\* LOGIN_FAILURE is logged and the answer is 401
LoginFails ==
    /\ ad_counter < MaxAuditEvents
    /\ \E writable \in BOOLEAN :
         /\ Log(new_event("auth.login.failure", "None", <<>>, FALSE), writable)
         /\ au_req' = Served("login", 0, FALSE, IF writable THEN 401 ELSE 500, 0)
    /\ UNCHANGED <<au_users, au_issued, au_loggedout>>
    /\ UNCHANGED <<utc_now, ad_last>>
    /\ UNCHANGED nonAuthAuditVars

\* POST /api/auth/register: 409 for an address that is taken; else the user
\* is added with the next id and the role viewer, a token is created,
\* USER_CREATED is logged and the token returned
Register ==
    /\ \E email \in RegisterEmails :
         IF \E i \in 1..Len(au_users) : au_users[i].email = email
         THEN /\ au_req' = Served("register", 0, FALSE, 409, 0)
              /\ UNCHANGED <<au_users, au_issued, ad_files, ad_counter>>
         ELSE LET user_id == UserIdOf[Len(au_users) + 1]
              IN  /\ ad_counter < MaxAuditEvents
                  /\ au_users' = Append(au_users,
                                        [email |-> email, id |-> user_id,
                                         role |-> "viewer"])
                  /\ \E j \in Jtis, writable \in BOOLEAN :
                       /\ FreshJti(j)
                       /\ Log(new_event("admin.user.created", user_id,
                                        <<Item(<<"o","r","g","a","n","i","z","a","t","i","o","n">>,
                                               Str("organization", 1))>>,
                                        TRUE),
                              writable)
                       /\ IF writable
                          THEN /\ au_issued' = create_access_token(j, user_id, "viewer")
                               /\ au_req' = Served("register", 0, TRUE, 200, j)
                          ELSE /\ au_req' = Served("register", 0, TRUE, 500, 0)
                               /\ UNCHANGED au_issued
    /\ UNCHANGED <<au_loggedout>>
    /\ UNCHANGED <<utc_now, ad_last>>
    /\ UNCHANGED nonAuthAuditVars

\* POST /api/auth/refresh: the dependency verifies the token, a new token
\* with a fresh expiry is created for the same user, TOKEN_REFRESH is logged
\* and the new token returned
RefreshToken ==
    /\ \E j \in {0} \cup { i \in Jtis : au_issued[i] # NotIssued } :
         LET user == get_current_user(BearerOf(j))
         IN  IF ~user.ok
             THEN /\ au_req' = Served("refresh", j, FALSE, user.status, 0)
                  /\ UNCHANGED <<au_issued, ad_files, ad_counter>>
             ELSE /\ ad_counter < MaxAuditEvents
                  /\ \E k \in Jtis, writable \in BOOLEAN :
                       /\ FreshJti(k)
                       /\ Log(new_event("auth.token.refresh", user.sub, <<>>, TRUE),
                              writable)
                       /\ IF writable
                          THEN /\ au_issued' = create_access_token(k, user.sub,
                                                                   user.role)
                               /\ au_req' = Served("refresh", j, TRUE, 200, k)
                          ELSE /\ au_req' = Served("refresh", j, TRUE, 500, 0)
                               /\ UNCHANGED au_issued
    /\ UNCHANGED <<au_users, au_loggedout>>
    /\ UNCHANGED <<utc_now, ad_last>>
    /\ UNCHANGED nonAuthAuditVars

\* POST /api/auth/logout: the dependency verifies the token, the handler
\* writes a LOGOUT event with the token's jti in its details to the audit
\* log and answers 200
Logout ==
    /\ \E j \in {0} \cup { i \in Jtis : au_issued[i] # NotIssued } :
         LET user == get_current_user(BearerOf(j))
         IN  IF ~user.ok
             THEN /\ au_req' = Served("logout", j, FALSE, user.status, 0)
                  /\ UNCHANGED <<au_loggedout, ad_files, ad_counter>>
             ELSE /\ ad_counter < MaxAuditEvents
                  /\ \E writable \in BOOLEAN :
                       /\ Log(new_event("auth.logout", user.sub,
                                        <<Item(<<"t","o","k","e","n","_","j","t","i">>,
                                               Str("jti", 1))>>,
                                        TRUE),
                              writable)
                       /\ au_loggedout' = IF writable THEN au_loggedout \cup {j}
                                          ELSE au_loggedout
                       /\ au_req' = Served("logout", j, TRUE,
                                           IF writable THEN 200 ELSE 500, 0)
    /\ UNCHANGED <<au_users, au_issued>>
    /\ UNCHANGED <<utc_now, ad_last>>
    /\ UNCHANGED nonAuthAuditVars

\* GET /api/auth/user: the dependency verifies the token, the handler
\* returns the profile of the token's user
GetUser ==
    /\ \E j \in {0} \cup { i \in Jtis : au_issued[i] # NotIssued } :
         LET user == get_current_user(BearerOf(j))
         IN  au_req' = Served("user", j, user.ok,
                              IF user.ok THEN 200 ELSE user.status, 0)
    /\ UNCHANGED <<utc_now, au_users, au_issued, au_loggedout>>
    /\ UNCHANGED nonAuthVars

----------------------------------------------------------------------------
(* Revocation stores: InMemoryTokenBlacklist and TokenBlacklist *)

NumRevoked == 2

MaxTtl == 2

MaxRevClock == 3

RevJtis == 1..NumRevoked

NumCleaners == 2

\* the threads that call cleanup()
Cleaners == 1..NumCleaners

\* rv_cleanup of a thread that is not inside cleanup()
NotReading == -1

\* a dict jti -> timestamp is a set of entries with at most one per jti
Entry(j, exp) == [jti |-> j, exp |-> exp]

\* d[j] = exp
DictPut(d, j, exp) == { e \in d : e.jti # j } \cup { Entry(j, exp) }

\* del d[j]
DictDel(d, j) == { e \in d : e.jti # j }

\* j in d
DictHas(d, j) == \E e \in d : e.jti = j

\* d[j]
DictGet(d, j) == (CHOOSE e \in d : e.jti = j).exp

RevokeStart ==
    /\ rv_now = 0
    /\ rv_store = {}
    /\ rv_blacklist = {}
    /\ rv_answer = [op |-> "none", jti |-> 0, value |-> 0]
    /\ rv_cleanup = [t \in Cleaners |-> NotReading]

\* InMemoryTokenBlacklist.revoke(jti, ttl_seconds), the ttl being the
\* remaining lifetime of the token
InMemoryRevoke ==
    /\ \E j \in RevJtis, ttl \in 1..MaxTtl :
         /\ rv_store' = DictPut(rv_store, j, rv_now + ttl)
         /\ rv_answer' = [op |-> "store.revoke", jti |-> j, value |-> ttl]
    /\ UNCHANGED <<rv_now, rv_blacklist, rv_cleanup>>
    /\ UNCHANGED nonRevokeVars

\* InMemoryTokenBlacklist.is_revoked(jti): an entry found expired is
\* deleted and the answer is False
InMemoryIsRevoked ==
    /\ \E j \in RevJtis :
         IF ~DictHas(rv_store, j)
         THEN /\ rv_answer' = [op |-> "store.is_revoked", jti |-> j, value |-> 0]
              /\ UNCHANGED rv_store
         ELSE IF rv_now > DictGet(rv_store, j)
         THEN /\ rv_store' = DictDel(rv_store, j)
              /\ rv_answer' = [op |-> "store.is_revoked", jti |-> j, value |-> 0]
         ELSE /\ rv_answer' = [op |-> "store.is_revoked", jti |-> j, value |-> 1]
              /\ UNCHANGED rv_store
    /\ UNCHANGED <<rv_now, rv_blacklist, rv_cleanup>>
    /\ UNCHANGED nonRevokeVars

\* TokenBlacklist.revoke(jti, expires_at), expires_at being the token's exp
BlacklistRevoke ==
    /\ \E j \in RevJtis, ttl \in 1..MaxTtl :
         /\ rv_blacklist' = DictPut(rv_blacklist, j, rv_now + ttl)
         /\ rv_answer' = [op |-> "blacklist.revoke", jti |-> j, value |-> ttl]
    /\ UNCHANGED <<rv_now, rv_store, rv_cleanup>>
    /\ UNCHANGED nonRevokeVars

\* TokenBlacklist.is_revoked(jti): membership only
BlacklistIsRevoked ==
    /\ \E j \in RevJtis :
         rv_answer' = [op |-> "blacklist.is_revoked", jti |-> j,
                       value |-> IF DictHas(rv_blacklist, j) THEN 1 ELSE 0]
    /\ UNCHANGED <<rv_now, rv_store, rv_blacklist, rv_cleanup>>
    /\ UNCHANGED nonRevokeVars

\* TokenBlacklist.cleanup(), first statement: now = time.time(), read before
\* the lock is taken
BlacklistCleanupNow ==
    /\ \E t \in Cleaners :
         /\ rv_cleanup[t] = NotReading
         /\ rv_cleanup' = [rv_cleanup EXCEPT ![t] = rv_now]
    /\ UNCHANGED <<rv_now, rv_store, rv_blacklist, rv_answer>>
    /\ UNCHANGED nonRevokeVars

\* TokenBlacklist.cleanup(), under the lock: the entries with exp < now, now
\* being the time read before, are removed and their number is returned
BlacklistCleanup ==
    /\ \E t \in Cleaners :
         /\ rv_cleanup[t] # NotReading
         /\ LET now == rv_cleanup[t]
                expired == { e \in rv_blacklist : e.exp < now }
            IN  /\ rv_blacklist' = rv_blacklist \ expired
                /\ rv_answer' = [op |-> "blacklist.cleanup", jti |-> 0,
                                 value |-> Cardinality(expired)]
         /\ rv_cleanup' = [rv_cleanup EXCEPT ![t] = NotReading]
    /\ UNCHANGED <<rv_now, rv_store>>
    /\ UNCHANGED nonRevokeVars

\* a second passes
RevokeTick ==
    /\ rv_now < MaxRevClock
    /\ rv_now' = rv_now + 1
    /\ UNCHANGED <<rv_store, rv_blacklist, rv_answer, rv_cleanup>>
    /\ UNCHANGED nonRevokeVars

----------------------------------------------------------------------------
(* Rate limiting: RateLimitMiddleware over InMemoryRateLimiter *)

\* setup_security_middleware: the limits the middleware is installed with
requests_per_minute == 60

auth_requests_per_minute == 10

\* dispatch: record_request(rate_key, window_seconds=60)
WINDOW_SECONDS == 60

NumRequests == 2

MaxRateTicks == 2

\* path.startswith(prefix)
StartsWith(path, prefix) ==
    /\ Len(path) >= Len(prefix)
    /\ SubSeq(path, 1, Len(prefix)) = prefix

AuthPrefix == <<"/","a","p","i","/","a","u","t","h">>

LoginPath == <<"/","a","p","i","/","a","u","t","h","/","l","o","g","i","n">>

ChatPath == <<"/","v","1","/","c","h","a","t">>

ApiPath == <<"/","a","p","i">>

\* who sends a request: its client address, whether its Authorization
\* header starts with "Bearer ", the sub of the JWT in it ("None" when the
\* token does not decode or has no sub) and whether the token's signature
\* verifies under the server's key
Client(ip, bearer, sub, signed) ==
    [ip |-> ip, bearer |-> bearer, sub |-> sub, signed |-> signed]

\* the requests sent: who sends and on which path
Requests ==
    { <<Client("a", FALSE, "None", FALSE), ChatPath>>,
      <<Client("a", FALSE, "None", FALSE), LoginPath>>,
      <<Client("a", TRUE, "u1", TRUE), ChatPath>>,
      <<Client("b", FALSE, "None", FALSE), LoginPath>>,
      <<Client("b", TRUE, "u1", FALSE), ChatPath>>,
      <<Client("b", TRUE, "None", FALSE), ApiPath>> }

\* _extract_user_id: the sub of the token, decoded with
\* verify_signature False; None without a bearer token
extract_user_id(client) == IF ~client.bearer THEN "None" ELSE client.sub

\* rate_key = f"user:{user_id}" if user_id else f"ip:{client_ip}"
rate_key(client) ==
    IF extract_user_id(client) \notin {"None", ""}
    THEN <<"user", extract_user_id(client)>>
    ELSE <<"ip", client.ip>>

RateKeys == { rate_key(r[1]) : r \in Requests }

\* InMemoryRateLimiter.record_request: the list of the key after the old
\* timestamps are dropped and now is appended; its length is the count
record_request(window, now) ==
    Append(SelectSeq(window, LAMBDA ts : now - ts < WINDOW_SECONDS), now)

\* the count compared with >= instead of >
rate_limited_inclusive(count, limit) == count >= limit

\* dispatch: if count > limit, answer 429
rate_limited(count, limit) == count > limit

\* n requests recorded at time 0
Burst(n) == [i \in 1..n |-> 0]

\* the lists a key may hold at time 0: none, a burst that just fits under
\* one of the two limits, or one that reaches the general limit
Bursts ==
    { Burst(0), Burst(auth_requests_per_minute - 1),
      Burst(requests_per_minute - 1), Burst(requests_per_minute) }

\* app.add_middleware: the new middleware goes in front of the list, and the
\* first of the list is the outermost ("last added = first executed")
add_middleware(user_middleware, m) == <<m>> \o user_middleware

\* setup_security_middleware: the list after its three add_middleware calls
setup_security_middleware ==
    add_middleware(
        add_middleware(
            add_middleware(<<>>, "RequestLoggingMiddleware"),
            "SecurityMiddleware"),
        "RateLimitMiddleware")

ApiPrefix == <<"/","a","p","i","/">>

V1Prefix == <<"/","v","1","/">>

\* SecurityMiddleware.dispatch: the headers it sets on the response that
\* call_next returned
security_headers(path) ==
    { <<"X-Frame-Options", "DENY">>,
      <<"X-Content-Type-Options", "nosniff">>,
      <<"X-XSS-Protection", "1; mode=block">>,
      <<"Referrer-Policy", "strict-origin-when-cross-origin">>,
      <<"Content-Security-Policy", "default-src 'none'; frame-ancestors 'none'">>,
      <<"Permissions-Policy", "geolocation=(), microphone=(), camera=()">>,
      <<"X-API-Version", "1.0">> }
    \cup (IF StartsWith(path, ApiPrefix) \/ StartsWith(path, V1Prefix)
          THEN { <<"Cache-Control", "no-store, max-age=0">>,
                 <<"Pragma", "no-cache">> }
          ELSE {})

\* response.headers[name] = value for every pair of set
SetHeaders(headers, set) ==
    { h \in headers : \A n \in set : n[1] # h[1] } \cup set

\* the response of the i-th middleware of the stack and all it wraps, for a
\* request on path; limited says that RateLimitMiddleware found the count
\* over the limit. Past the last middleware the route answers.
RECURSIVE call_next(_, _, _, _)
call_next(stack, i, path, limited) ==
    IF i > Len(stack) THEN [status |-> 200, headers |-> {}]
    ELSE IF stack[i] = "RateLimitMiddleware"
    THEN IF limited
         THEN [status |-> 429,
               headers |-> { <<"Content-Type", "application/json">>,
                             <<"Retry-After", "60">> }]
         ELSE call_next(stack, i + 1, path, limited)
    ELSE IF stack[i] = "SecurityMiddleware"
    THEN LET response == call_next(stack, i + 1, path, limited)
         IN  [response EXCEPT
                 !.headers = SetHeaders(@, security_headers(path))]
    ELSE LET response == call_next(stack, i + 1, path, limited)
         IN  [response EXCEPT
                 !.headers = SetHeaders(@, { <<"X-Request-ID", "id">> })]

NoRequest ==
    [n |-> 0, client |-> [ip |-> "", bearer |-> FALSE, sub |-> "None",
                          signed |-> FALSE],
     key |-> <<>>, path |-> <<>>, at |-> 0, count |-> 0, recent |-> 0,
     status |-> 0,
     passed |-> FALSE, headers |-> {}]

RateStart ==
    /\ rl_now = 0
    /\ \E k \in RateKeys, burst \in Bursts :
         rl_windows = [x \in RateKeys |-> IF x = k THEN burst ELSE <<>>]
    /\ rl_log = rl_windows
    /\ rl_started = 0
    /\ rl_flight = {}
    /\ rl_last = NoRequest

\* no traffic
RateIdle ==
    /\ rl_now = 0
    /\ rl_windows = [k \in RateKeys |-> <<>>]
    /\ rl_log = rl_windows
    /\ rl_started = 0
    /\ rl_flight = {}
    /\ rl_last = NoRequest

\* the number of the requests made at the times of log that fall in the
\* WINDOW_SECONDS up to time t
RecentRequests(log, t) ==
    Cardinality({ i \in 1..Len(log) : t - log[i] < WINDOW_SECONDS })

\* a request enters the middleware stack: RateLimitMiddleware.dispatch
\* records it and answers 429 at once, or passes it on and awaits call_next.
\* recent is the number of requests of its key, this one included, made in
\* the trailing window since the windows were last cleared.
Dispatch ==
    /\ rl_started < NumRequests
    /\ \E r \in Requests :
         LET client == r[1]
             path == r[2]
             key == rate_key(client)
             limit == IF StartsWith(path, AuthPrefix)
                      THEN auth_requests_per_minute ELSE requests_per_minute
             window == record_request(rl_windows[key], rl_now)
             count == Len(window)
             response == call_next(setup_security_middleware, 1, path, TRUE)
             request == [n |-> rl_started + 1, client |-> client,
                         key |-> key, path |-> path,
                         at |-> rl_now, count |-> count,
                         recent |-> RecentRequests(Append(rl_log[key], rl_now),
                                                   rl_now),
                         status |-> 0,
                         passed |-> ~rate_limited(count, limit),
                         headers |-> {}]
         IN  /\ rl_windows' = [rl_windows EXCEPT ![key] = window]
             /\ rl_log' = [rl_log EXCEPT ![key] = Append(@, rl_now)]
             /\ IF rate_limited(count, limit)
                THEN /\ rl_last' = [request EXCEPT
                                       !.status = response.status,
                                       !.headers = response.headers]
                     /\ UNCHANGED rl_flight
                ELSE /\ rl_flight' = rl_flight \cup {request}
                     /\ UNCHANGED rl_last
    /\ rl_started' = rl_started + 1
    /\ UNCHANGED rl_now
    /\ UNCHANGED nonRateVars

\* return await call_next(request): the rest of the stack answers a request
\* that was passed on; the middlewares it passed work on the response on its
\* way back
DispatchReturn ==
    /\ \E request \in rl_flight :
         LET response == call_next(setup_security_middleware, 1,
                                   request.path, FALSE)
         IN  /\ rl_last' = [request EXCEPT
                               !.status = response.status,
                               !.headers = response.headers]
             /\ rl_flight' = rl_flight \ {request}
    /\ UNCHANGED <<rl_now, rl_windows, rl_log, rl_started>>
    /\ UNCHANGED nonRateVars

\* InMemoryRateLimiter.clear(): every key is dropped; record_request gives a
\* key it does not find the empty list
InMemoryClear ==
    /\ rl_windows' = [k \in RateKeys |-> <<>>]
    /\ rl_log' = [k \in RateKeys |-> <<>>]
    /\ UNCHANGED <<rl_now, rl_started, rl_flight, rl_last>>
    /\ UNCHANGED nonRateVars

\* half a window passes
RateTick ==
    /\ rl_now < MaxRateTicks * (WINDOW_SECONDS \div 2)
    /\ rl_now' = rl_now + WINDOW_SECONDS \div 2
    /\ UNCHANGED <<rl_windows, rl_log, rl_started, rl_flight, rl_last>>
    /\ UNCHANGED nonRateVars

----------------------------------------------------------------------------
(* Rate limiting over the shared store: RedisRateLimiter *)

NumProcs == 3

MaxRedisClock == 2

Procs == 1..NumProcs

\* ZADD key {member: score}: a member already in the set keeps one entry
\* and takes the new score
ZAdd(zset, member, score) ==
    { e \in zset : e.member # member } \cup { [member |-> member, score |-> score] }

\* ZREMRANGEBYSCORE key lo hi: both ends inclusive
ZRemRangeByScore(zset, lo, hi) == { e \in zset : ~(lo <= e.score /\ e.score <= hi) }

RedisStart ==
    /\ rd_clock = 0
    /\ rd_zset = {}
    /\ rd_pc = [p \in Procs |-> "idle"]
    /\ rd_t = [p \in Procs |-> 0]
    /\ rd_count = [p \in Procs |-> 0]
    /\ rd_calls = 0

\* no process
RedisIdle ==
    /\ rd_clock = 0
    /\ rd_zset = {}
    /\ rd_pc = <<>>
    /\ rd_t = <<>>
    /\ rd_count = <<>>
    /\ rd_calls = 0

\* record_request, first line: now = time.time()
ReadClock(p) ==
    /\ rd_pc[p] = "idle"
    /\ rd_t' = [rd_t EXCEPT ![p] = rd_clock]
    /\ rd_pc' = [rd_pc EXCEPT ![p] = "read"]
    /\ UNCHANGED <<rd_clock, rd_zset, rd_count, rd_calls>>
    /\ UNCHANGED nonRedisVars

\* record_request, the pipeline: executed by the store as one transaction,
\* it drops the entries scored up to now - window_seconds, adds the member
\* str(now) with score now and counts the set. str() of a float is its
\* shortest round-trip text, so two members are equal exactly when the two
\* clock values are; the key's own expiry, window_seconds + 1 after the
\* last call, lies beyond the one window looked at here.
Pipeline(p) ==
    /\ rd_pc[p] = "read"
    /\ LET now == rd_t[p]
           zset == ZAdd(ZRemRangeByScore(rd_zset, 0, now - WINDOW_SECONDS), now, now)
       IN  /\ rd_zset' = zset
           /\ rd_count' = [rd_count EXCEPT ![p] = Cardinality(zset)]
    /\ rd_pc' = [rd_pc EXCEPT ![p] = "done"]
    /\ rd_calls' = rd_calls + 1
    /\ UNCHANGED <<rd_clock, rd_t>>
    /\ UNCHANGED nonRedisVars

\* the clock moves on to its next value
RedisTick ==
    /\ rd_clock < MaxRedisClock
    /\ rd_clock' = rd_clock + 1
    /\ UNCHANGED <<rd_zset, rd_pc, rd_t, rd_count, rd_calls>>
    /\ UNCHANGED nonRedisVars

\* RedisRateLimiter.clear(): every ratelimit:* key is deleted
RedisClear ==
    /\ rd_zset' = {}
    /\ rd_calls' = 0
    /\ UNCHANGED <<rd_clock, rd_pc, rd_t, rd_count>>
    /\ UNCHANGED nonRedisVars

----------------------------------------------------------------------------
(* Routes that write to or read the audit trail *)

\* the user_id filter get_audit_logs takes from the request as it is
logs_user_id_as_given(user, user_id) == user_id

\* get_audit_logs: non-admins can only see their own logs
logs_user_id(user, user_id) == IF user.role # "admin" THEN user.sub ELSE user_id

\* the details of the event get_audit_logs writes about itself
logs_details(start_date, end_date, page) ==
    <<Item(<<"s","t","a","r","t","_","d","a","t","e">>, Scalar(IF start_date.given THEN "date" ELSE "None")),
      Item(<<"e","n","d","_","d","a","t","e">>, Scalar(IF end_date.given THEN "date" ELSE "None")),
      Item(<<"e","v","e","n","t","_","t","y","p","e">>, Scalar("None")),
      Item(<<"p","a","g","e">>, Scalar(IF page = 1 THEN "1" ELSE "n"))>>

\* the query parameters of a GET /api/audit/logs request: user_id,
\* start_date, end_date, page, page_size
LogsRequests ==
    { <<"None", NoDate, NoDate, 1, 1>>,
      <<"None", NoDate, NoDate, 2, 1>>,
      <<"user_001", NoDate, NoDate, 1, 2>>,
      <<"None", Date(13, TRUE), Date(47, TRUE), 1, 1>>,
      <<"None", Date(0, TRUE), Date(0, TRUE), 1, 1>>,
      <<"None", Date(0, FALSE), Date(47, FALSE), 1, 1>>,
      <<"None", Date(0, FALSE), Date(47, TRUE), 1, 1>>,
      <<"None", Date(24, TRUE), Date(0, TRUE), 1, 1>> }

\* GET /api/audit/logs
GetAuditLogs ==
    /\ ad_counter < MaxAuditEvents
    /\ \E user \in AuditCallers \cup {NoPayload}, request \in LogsRequests :
         LET user_id == request[1]
             start_date == request[2]
             end_date == request[3]
             page == request[4]
             page_size == request[5]
             offset == (page - 1) * page_size
             events == query(ad_files, start_date, end_date, "None",
                             logs_user_id(user, user_id), page_size + 1, offset)
             has_more == Len(events) > page_size
             page_events == IF has_more THEN SubSeq(events, 1, page_size)
                            ELSE events
         IN  IF user = NoPayload
             THEN /\ ad_last' = [NoCall EXCEPT !.op = "logs", !.status = 401]
                  /\ UNCHANGED <<ad_files, ad_counter>>
             ELSE IF start_date.given /\ end_date.given
                     /\ DateLess(end_date, start_date) = "TypeError"
             THEN /\ ad_last' = [NoCall EXCEPT
                                    !.op = "logs", !.caller = user,
                                    !.raised = TRUE, !.status = 500]
                  /\ UNCHANGED <<ad_files, ad_counter>>
             ELSE IF start_date.given /\ end_date.given
                     /\ DateLess(end_date, start_date) = "True"
             THEN /\ ad_last' = [NoCall EXCEPT
                                    !.op = "logs", !.caller = user, !.status = 400]
                  /\ UNCHANGED <<ad_files, ad_counter>>
             ELSE \E writable \in BOOLEAN :
                     /\ Log(new_event("data.schema.accessed", user.sub,
                                      logs_details(start_date, end_date, page),
                                      TRUE),
                            writable)
                     /\ ad_last' = [NoCall EXCEPT
                                       !.op = "logs", !.caller = user,
                                       !.raised = ~writable,
                                       !.status = IF writable THEN 200 ELSE 500,
                                       !.events = IF writable THEN page_events
                                                  ELSE <<>>]
    /\ UNCHANGED utc_now
    /\ UNCHANGED nonAuditVars

\* get_audit_event: audit.query(limit=10000)
EVENT_SCAN_LIMIT == 10000

\* the ids log() may have given so far, written or not
EventIds == { <<d, c>> : d \in 0..DateOf(utc_now), c \in 1..MaxAuditEvents }

\* GET /api/audit/events/{event_id}
GetAuditEvent ==
    /\ \E user \in AuditCallers, event_id \in EventIds :
         LET events == query(ad_files, NoDate, NoDate, "None", "None",
                             EVENT_SCAN_LIMIT, 0)
             hits == SelectSeq(events, LAMBDA e : e.id = event_id)
         IN  ad_last' =
                IF hits = <<>>
                THEN [NoCall EXCEPT !.op = "event", !.caller = user, !.status = 404]
                ELSE IF user.role # "admin" /\ hits[1].user_id # user.sub
                THEN [NoCall EXCEPT !.op = "event", !.caller = user, !.status = 403]
                ELSE [NoCall EXCEPT !.op = "event", !.caller = user, !.status = 200,
                                    !.events = <<hits[1]>>]
    /\ UNCHANGED <<utc_now, ad_files, ad_counter>>
    /\ UNCHANGED nonAuditVars

----------------------------------------------------------------------------
(* The execute endpoints and the failures they report *)

NumErrRequests == 3

\* what connector.execute_query (and, for /v1/chat, the generator) does to a
\* request: it returns the rows or raises an exception of one of these classes
Outcomes ==
    { "rows", "ReadOnlyViolationError", "QueryGuardrailError", "RuntimeError",
      "Exception" }

\* str(e) of the exception raised
ErrTexts == { "ORA-00942: table or view does not exist", "ORA-12541: no listener" }

GENERIC_ERROR == <<"An internal error occurred. Please try again later.">>

\* execute_protected_query: the dict it returns for what happened inside
\* its try block
execute_protected_query(outcome, text) ==
    IF outcome = "rows" THEN [status |-> "success", error |-> <<>>]
    ELSE IF outcome = "ReadOnlyViolationError"
    THEN [status |-> "error", error |-> <<"Security violation: ", text>>]
    ELSE IF outcome = "QueryGuardrailError"
    THEN [status |-> "error", error |-> <<"Query limit exceeded: ", text>>]
    ELSE IF outcome = "RuntimeError"
    THEN [status |-> "error", error |-> <<text>>]
    ELSE [status |-> "error", error |-> GENERIC_ERROR]

\* POST /execute: run_query answers 200 with the rows, else raises
\* HTTPException(400, detail=result["error"])
run_query(outcome, text) ==
    LET result == execute_protected_query(outcome, text)
    IN  IF result.status = "success"
        THEN [code |-> 200, status |-> "success", error |-> <<>>]
        ELSE [code |-> 400, status |-> "none", error |-> result.error]

\* POST /api/execute: execute_query of the demo API
execute_query(connected, outcome, text) ==
    IF ~connected
    THEN [code |-> 400, status |-> "none",
          error |-> <<"No database connection. Use /api/connect first.">>]
    ELSE IF outcome = "rows"
    THEN [code |-> 200, status |-> "success", error |-> <<>>]
    ELSE IF outcome = "ReadOnlyViolationError"
    THEN [code |-> 403, status |-> "blocked", error |-> <<text>>]
    ELSE [code |-> 500, status |-> "error", error |-> <<text>>]

SqlSelect == <<"S","E","L","E","C","T"," ","1">>

SqlDelete == <<"D","E","L","E","T","E"," ","t","1">>

\* str(e) of the OSError open() raises for the audit log file
AUDIT_WRITE_ERROR == <<"[Errno 2] No such file or directory: audit log file">>

\* the body of the answer to a request whose handler raised an exception
\* nothing caught
INTERNAL_SERVER_ERROR == <<"Internal Server Error">>

\* POST /v1/chat. Without an agent the answer is 503. run() reports a
\* read-only violation found by validate_query (valid says that it found
\* none) and any exception of execute_query, whatever its class, in the
\* error of its response; chat() logs QUERY_EXECUTED
\* (written says whether that write succeeds) and answers 200. An
\* exception that run() lets through (failed says so: the generator raised
\* it) or that audit.log() raised is logged as QUERY_BLOCKED (for the second
\* write of a request, written_again says whether it succeeds) and answered
\* 400 with str(e); when that audit.log() call raises, nothing catches it.
chat(agent, failed, valid, outcome, text, written, written_again) ==
    IF ~agent
    THEN [code |-> 503, status |-> "none", error |-> <<"Agent not initialized">>]
    ELSE IF failed
    THEN IF written
         THEN [code |-> 400, status |-> "none", error |-> <<text>>]
         ELSE [code |-> 500, status |-> "none", error |-> INTERNAL_SERVER_ERROR]
    ELSE IF ~written
    THEN IF written_again
         THEN [code |-> 400, status |-> "none", error |-> AUDIT_WRITE_ERROR]
         ELSE [code |-> 500, status |-> "none", error |-> INTERNAL_SERVER_ERROR]
    ELSE IF ~valid
    THEN [code |-> 200, status |-> "none",
          error |-> <<"Generated SQL violates read-only policy: ", text>>]
    ELSE IF outcome = "rows"
    THEN [code |-> 200, status |-> "success", error |-> <<>>]
    ELSE [code |-> 200, status |-> "none",
          error |-> <<"Query execution failed: ", text>>]

\* the audit.log() calls chat() makes, in order: the event type, whether the
\* event says success and whether the write succeeds
chat_logs(agent, failed, valid, outcome, written, written_again) ==
    IF ~agent THEN <<>>
    ELSE IF failed THEN << <<"data.query.blocked", FALSE, written>> >>
    ELSE IF written
    THEN << <<"data.query.executed", valid /\ outcome = "rows", TRUE>> >>
    ELSE << <<"data.query.executed", valid /\ outcome = "rows", FALSE>>,
            <<"data.query.blocked", FALSE, written_again>> >>

NoErrRequest ==
    [endpoint |-> "none", outcome |-> "none", failed |-> FALSE, text |-> "",
     response |-> [code |-> 0, status |-> "none", error |-> <<>>]]

ErrStart ==
    /\ er_n = 0
    /\ er_last = NoErrRequest
    /\ er_seen = {}

\* the request is answered and remembered
Answered(endpoint, outcome, failed, text, response) ==
    /\ er_n' = er_n + 1
    /\ er_last' = [endpoint |-> endpoint, outcome |-> outcome, failed |-> failed,
                   text |-> text, response |-> response]
    /\ er_seen' = er_seen \cup { <<endpoint, outcome, failed, response.code>> }

RunQuery ==
    /\ er_n < NumErrRequests
    /\ \E outcome \in Outcomes, text \in ErrTexts :
         Answered("/execute", outcome, FALSE, text, run_query(outcome, text))
    /\ UNCHANGED nonErrVars

ExecuteQuery ==
    /\ er_n < NumErrRequests
    /\ \E connected \in BOOLEAN, outcome \in Outcomes, text \in ErrTexts :
         Answered("/api/execute", IF connected THEN outcome ELSE "none", FALSE,
                  text, execute_query(connected, outcome, text))
    /\ UNCHANGED nonErrVars

\* the n-th event chat() logs for an anonymous question that found no
\* table: QUERY_EXECUTED with the generated SQL, QUERY_BLOCKED without
chat_event(log, generated_sql, n) ==
    [new_event(log[1], "None",
               IF log[1] = "data.query.executed"
               THEN chat_details(<<>>, generated_sql) ELSE <<question_item>>,
               log[2])
        EXCEPT !.id = <<DateOf(utc_now), ad_counter + n>>]

ChatQuery ==
    /\ er_n < NumErrRequests
    /\ \E agent \in BOOLEAN, failed \in BOOLEAN, valid \in BOOLEAN,
          outcome \in Outcomes, text \in ErrTexts,
          written \in BOOLEAN, written_again \in BOOLEAN :
         LET logs == chat_logs(agent, failed, valid, outcome, written,
                               written_again)
             persisted == SelectSeq([n \in 1..Len(logs) |-> <<logs[n], n>>],
                                    LAMBDA l : l[1][3])
             generated_sql == IF valid THEN SqlSelect ELSE SqlDelete
         IN  /\ ad_counter + Len(logs) <= MaxAuditEvents
             /\ Answered("/v1/chat",
                         IF ~agent THEN "none"
                         ELSE IF failed THEN "Exception"
                         ELSE IF ~valid THEN "ReadOnlyViolationError"
                         ELSE outcome,
                         agent /\ failed, text,
                         chat(agent, failed, valid, outcome, text, written,
                              written_again))
             /\ ad_counter' = ad_counter + Len(logs)
             /\ ad_files' =
                   IF persisted = <<>> THEN ad_files
                   ELSE [ad_files EXCEPT
                            ![DateOf(utc_now)] =
                               write_event(@, chat_event(persisted[1][1],
                                                         generated_sql,
                                                         persisted[1][2]))]
    /\ UNCHANGED <<utc_now, ad_last>>
    /\ UNCHANGED nonErrAuditVars

----------------------------------------------------------------------------
(* dispatch_webhook *)

MaxWebhookRetries == 4

\* what one urlopen call does: a response with a 2xx status, a response
\* with another status, or an exception
Deliveries == { "2xx", "status", "exception" }

\* 2 ** attempt
RECURSIVE Pow2(_)
Pow2(n) == IF n = 0 THEN 1 ELSE 2 * Pow2(n - 1)

HookIdle ==
    /\ wh_pc = "idle"
    /\ wh_max_retries = 0
    /\ wh_attempt = 0
    /\ wh_calls = <<>>
    /\ wh_sleeps = <<>>
    /\ wh_result = "None"

HookStart ==
    /\ wh_pc = "idle"
    /\ wh_max_retries \in 0..MaxWebhookRetries
    /\ wh_attempt = 0
    /\ wh_calls = <<>>
    /\ wh_sleeps = <<>>
    /\ wh_result = "None"

\* the call starts: the body is serialized and the loop entered with
\* attempt = 0, range(max_retries + 1) being non-empty
WebhookCall ==
    /\ wh_pc = "idle"
    /\ wh_pc' = "attempt"
    /\ UNCHANGED <<wh_max_retries, wh_attempt, wh_calls, wh_sleeps, wh_result>>
    /\ UNCHANGED nonHookVars

\* a retry granted after the last attempt of the range too
WebhookAttemptOneMore ==
    /\ wh_pc = "attempt"
    /\ \E delivery \in Deliveries :
         /\ wh_calls' = Append(wh_calls, delivery)
         /\ IF delivery = "2xx"
            THEN /\ wh_result' = "True"
                 /\ wh_pc' = "done"
            ELSE IF wh_attempt <= wh_max_retries
            THEN /\ wh_pc' = "sleep"
                 /\ UNCHANGED wh_result
            ELSE /\ wh_result' = "False"
                 /\ wh_pc' = "done"
    /\ UNCHANGED <<wh_max_retries, wh_attempt, wh_sleeps>>
    /\ UNCHANGED nonHookVars

\* one pass of the loop up to the sleep: urlopen is called; a 2xx status
\* returns True; otherwise, if attempt < max_retries the call goes to sleep,
\* else the loop is over and the call returns False
WebhookAttempt ==
    /\ wh_pc = "attempt"
    /\ \E delivery \in Deliveries :
         /\ wh_calls' = Append(wh_calls, delivery)
         /\ IF delivery = "2xx"
            THEN /\ wh_result' = "True"
                 /\ wh_pc' = "done"
            ELSE IF wh_attempt < wh_max_retries
            THEN /\ wh_pc' = "sleep"
                 /\ UNCHANGED wh_result
            ELSE /\ wh_result' = "False"
                 /\ wh_pc' = "done"
    /\ UNCHANGED <<wh_max_retries, wh_attempt, wh_sleeps>>
    /\ UNCHANGED nonHookVars

\* await asyncio.sleep(base_delay * 2 ** attempt), then the next pass
WebhookSleep ==
    /\ wh_pc = "sleep"
    /\ wh_sleeps' = Append(wh_sleeps, Pow2(wh_attempt))
    /\ wh_attempt' = wh_attempt + 1
    /\ wh_pc' = "attempt"
    /\ UNCHANGED <<wh_max_retries, wh_calls, wh_result>>
    /\ UNCHANGED nonHookVars

----------------------------------------------------------------------------

\* nothing on the audit trail, the execute endpoints and the webhook sender
OpsIdle == AuditIdle /\ ErrStart /\ HookIdle

\* nothing on the token, revocation and rate-limit side
SecIdle ==
    /\ AuthStart
    /\ RevokeStart
    /\ RateIdle
    /\ RedisIdle

----------------------------------------------------------------------------
(* Inputs and specifications *)

\* safe_db_connector: ATLAS_DB_TIMEOUT_SECONDS and ATLAS_DB_MAX_ROWS defaults
DB_TIMEOUT == 30

DB_MAX_ROWS == 1000

NumCalls == 2

NumPoolCalls == 6

MaxPools == 2

MaxDelay == 2

MaxResultRows == 3

MaxTimeout == 1

MaxRowCap == 2

\* an execute_query call that does nothing before the pool exists
ExecIdle ==
    /\ ExecStart([callers |-> {}, sqls |-> {}, delays |-> {}, rowcounts |-> {},
                  maxPools |-> 0])
    /\ timeout_seconds = DB_TIMEOUT
    /\ max_rows = DB_MAX_ROWS

\* no filter call
MoatStartIdle ==
    /\ mtables = <<>>
    /\ mrole = "viewer"
    /\ mfiltered = <<>>
    /\ mdone = FALSE
    /\ mrefiltered = <<>>
    /\ mredone = FALSE

\* no registry on disk and no filter call
MoatIdle == schema = <<>> /\ MoatStartIdle

\* the validator alone
ValInit == ValStart /\ ExecIdle /\ MoatIdle /\ ChatStart /\ ResolveIdle /\ SecIdle /\ OpsIdle

ValNext == Compose \/ ValidateQuery

SpecValidate == ValInit /\ [][ValNext]_vars

\* calls with valid and invalid SQL, with and without a pool
ExecInit ==
    /\ ValStart
    /\ MoatIdle
    /\ ChatStart
    /\ ResolveIdle
    /\ SecIdle /\ OpsIdle
    /\ ExecStart([callers |-> 1..NumCalls, sqls |-> {SqlSelect, SqlDelete},
                  delays |-> {0}, rowcounts |-> {1}, maxPools |-> MaxPools])
    /\ timeout_seconds = DB_TIMEOUT
    /\ max_rows = DB_MAX_ROWS

ExecNext ==
    \/ Connect
    \/ CloseBegin
    \/ CloseEnd
    \/ \E c \in env.callers : StartCall(c)
    \/ \E c \in env.callers : Acquire(c)
    \/ \E c \in env.callers : AcquireFails(c)
    \/ \E c \in env.callers : ExecuteFails(c)
    \/ \E c \in env.callers : FetchAll(c)

SpecExec == ExecInit /\ [][ExecNext]_vars

\* valid calls on a connected pool against a backend of varying speed and
\* result size, under varying limits
GuardInit ==
    /\ ValStart
    /\ MoatIdle
    /\ ChatStart
    /\ ResolveIdle
    /\ SecIdle /\ OpsIdle
    /\ ExecStart([callers |-> 1..NumCalls, sqls |-> {SqlSelect},
                  delays |-> 0..MaxDelay, rowcounts |-> 0..MaxResultRows,
                  maxPools |-> 1])
    /\ timeout_seconds \in 1..MaxTimeout
    /\ max_rows \in 1..MaxRowCap

GuardNext ==
    \/ Connect
    \/ \E c \in env.callers : StartCall(c)
    \/ \E c \in env.callers : Acquire(c)
    \/ \E c \in env.callers : Tick(c)
    \/ \E c \in env.callers : ExecuteFails(c)
    \/ \E c \in env.callers : FetchAll(c)

SpecGuard == GuardInit /\ [][GuardNext]_vars

\* more concurrent calls than the pool has connections
PoolInit ==
    /\ ValStart
    /\ MoatIdle
    /\ ChatStart
    /\ ResolveIdle
    /\ SecIdle /\ OpsIdle
    /\ ExecStart([callers |-> 1..NumPoolCalls, sqls |-> {SqlSelect},
                  delays |-> {0}, rowcounts |-> {1}, maxPools |-> 1])
    /\ timeout_seconds = DB_TIMEOUT
    /\ max_rows = DB_MAX_ROWS

PoolNext ==
    \/ Connect
    \/ \E c \in env.callers : StartCall(c)
    \/ \E c \in env.callers : Acquire(c)
    \/ \E c \in env.callers : ExecuteFails(c)
    \/ \E c \in env.callers : FetchAll(c)

SpecPool == PoolInit /\ [][PoolNext]_vars

\* the role filter alone
MoatInit ==
    /\ ValStart /\ ExecIdle /\ schema \in Registries /\ MoatStart /\ ChatStart
    /\ ResolveIdle /\ SecIdle /\ OpsIdle

MoatNext == AddCandidate \/ FilterTables \/ FilterAgain

SpecMoat == MoatInit /\ [][MoatNext]_vars

\* one request to POST /v1/chat
ChatInit ==
    /\ ValStart
    /\ ExecIdle
    /\ schema \in ChatRegistries
    /\ MoatStartIdle
    /\ ChatStart
    /\ ResolveIdle
    /\ SecIdle /\ OpsIdle

ChatNext ==
    \/ ChatArrive
    \/ ChatUnavailable
    \/ ChatGenerate
    \/ ChatGenerateFails
    \/ ChatExecuteReturns
    \/ ChatExecuteRaises

SpecChat == ChatInit /\ [][ChatNext]_vars

\* run() called directly with a role
AgentNext ==
    \/ AgentRun
    \/ ChatGenerate
    \/ ChatGenerateFails
    \/ ChatExecuteReturns
    \/ ChatExecuteRaises

SpecAgent == ChatInit /\ [][AgentNext]_vars

\* the data side at rest
DataIdle == ValStart /\ ExecIdle /\ MoatIdle /\ ChatStart

\* the resolver alone
ResolveInit == DataIdle /\ ResolveStart /\ SecIdle /\ OpsIdle

ResolveNext == Resolve

SpecResolve == ResolveInit /\ [][ResolveNext]_vars

\* the authentication routes
AuthInit ==
    DataIdle /\ ResolveIdle /\ AuthStart /\ RevokeStart /\ RateIdle /\ RedisIdle
       /\ AuditStart /\ ErrStart /\ HookIdle

AuthNext ==
    \/ Login
    \/ LoginFails
    \/ Register
    \/ RefreshToken
    \/ Logout
    \/ GetUser
    \/ ClockTick

SpecAuth == AuthInit /\ [][AuthNext]_vars

\* the two revocation stores
RevokeInit ==
    DataIdle /\ ResolveIdle /\ AuthStart /\ RevokeStart /\ RateIdle /\ RedisIdle
       /\ OpsIdle

RevokeNext ==
    \/ InMemoryRevoke
    \/ InMemoryIsRevoked
    \/ BlacklistRevoke
    \/ BlacklistIsRevoked
    \/ BlacklistCleanupNow
    \/ BlacklistCleanup
    \/ RevokeTick

SpecRevoke == RevokeInit /\ [][RevokeNext]_vars

\* requests through the rate-limit middleware, single process
RateInit ==
    DataIdle /\ ResolveIdle /\ AuthStart /\ RevokeStart /\ RateStart /\ RedisIdle
       /\ OpsIdle

RateNext == Dispatch \/ DispatchReturn \/ InMemoryClear \/ RateTick

SpecRate == RateInit /\ [][RateNext]_vars

\* several processes recording requests of one key in the shared store
RedisInit ==
    DataIdle /\ ResolveIdle /\ AuthStart /\ RevokeStart /\ RateIdle /\ RedisStart
       /\ OpsIdle

RedisNext ==
    \/ \E p \in Procs : ReadClock(p)
    \/ \E p \in Procs : Pipeline(p)
    \/ RedisClear
    \/ RedisTick

SpecRedis == RedisInit /\ [][RedisNext]_vars

\* the audit logger, and the login route that writes to it
AuditInit == DataIdle /\ ResolveIdle /\ SecIdle /\ AuditStart /\ ErrStart /\ HookIdle

AuditNext ==
    \/ AuditLog
    \/ AuditQuery
    \/ ClockTick

SpecAudit == AuditInit /\ [][AuditNext]_vars

\* the routes that read the audit trail, within one day
RoutesNext ==
    \/ GetAuditLogs
    \/ GetAuditEvent

\* the service started at noon
RoutesInit ==
    DataIdle /\ ResolveIdle /\ SecIdle /\ AuditStartAt(12) /\ ErrStart /\ HookIdle

SpecAuditRoutes == RoutesInit /\ [][RoutesNext]_vars

\* requests to the three endpoints that execute SQL
ErrInit == DataIdle /\ ResolveIdle /\ SecIdle /\ AuditStart /\ ErrStart /\ HookIdle

ErrNext == RunQuery \/ ExecuteQuery \/ ChatQuery

SpecErrors == ErrInit /\ [][ErrNext]_vars

\* one call of dispatch_webhook; the coroutine is awaited to its end and
\* every urlopen call returns or raises within its timeout
HookInit == DataIdle /\ ResolveIdle /\ SecIdle /\ AuditIdle /\ ErrStart /\ HookStart

HookNext == WebhookCall \/ WebhookAttempt \/ WebhookSleep

SpecWebhook == HookInit /\ [][HookNext]_vars /\ WF_vars(HookNext)

----------------------------------------------------------------------------
(* Properties of the validator *)

\* the twelve keywords the specification lists
SpecKeywords ==
    FORBIDDEN_KEYWORDS \cup { <<"E","X","E","C","U","T","E">>, <<"C","A","L","L">> }

\* the first word of the text, leading white space skipped
FirstWord(s) ==
    LET nonSpace == { i \in 1..Len(s) : ~IsSpace(s[i]) }
    IN  IF nonSpace = {} THEN <<>>
        ELSE LET a == Min(nonSpace)
                 ends == { i \in a..Len(s) : ~IsWordChar(s[i]) }
                 b == IF ends = {} THEN Len(s) + 1 ELSE Min(ends)
             IN  SubSeq(s, a, b - 1)

IsSelectOrWith(s) ==
    UpperStr(FirstWord(s)) \in { <<"S","E","L","E","C","T">>, <<"W","I","T","H">> }

\* words a SQL statement starts with
StatementWords ==
    FORBIDDEN_KEYWORDS \cup { <<"S","E","L","E","C","T">>, <<"W","I","T","H">>,
                              <<"C","O","M","M","I","T">> }

\* a statement, a ';' and a second statement after it, with no quoting around
HasSecondStatement(s) ==
    /\ \A i \in 1..Len(s) : s[i] # "'"
    /\ \E i \in 1..Len(s) :
         /\ s[i] = ";"
         /\ UpperStr(FirstWord(SubSeq(s, 1, i - 1))) \in StatementWords
         /\ UpperStr(FirstWord(SubSeq(s, i + 1, Len(s)))) \in StatementWords

\* C1: every text in which one of the twelve listed keywords occurs as a
\* whole word, in any letter case and anywhere (quoted or not), is rejected
\* by validate_query with ReadOnlyViolation.
C1_ListedKeywordRejected ==
    (vres # "pending" /\ MatchPositions(sql, SpecKeywords) # {})
        => vres = "ReadOnlyViolation"

\* C2: every text that holds a second statement after a ';' is rejected by
\* validate_query with ReadOnlyViolation, also when no statement of the batch
\* has a forbidden keyword.
C2_BatchRejected ==
    (vres # "pending" /\ HasSecondStatement(sql)) => vres = "ReadOnlyViolation"

\* C3: validate_query succeeds only for SELECT or WITH statements: a text it
\* accepts starts with SELECT or WITH.
C3_OnlySelectOrWithAccepted ==
    vres = "ok" => IsSelectOrWith(sql)

----------------------------------------------------------------------------
(* Properties of execute_query *)

\* C5: validation comes first, then the pool-presence check, then the
\* acquisition: a call whose SQL is not read-only ends with ReadOnlyViolation
\* and has acquired no connection, pool or no pool; a call with valid SQL made
\* while there is no pool ends with the not-connected error and has acquired
\* no connection; only valid calls made on a pool ever wait for a connection.
C5_ValidateThenPoolThenAcquire ==
    \A c \in env.callers :
       /\ pc[c] = "done" /\ validate_query(csql[c]) # "ok"
             => res[c] = "ReadOnlyViolation" /\ acq[c] = 0
       /\ pc[c] = "done" /\ validate_query(csql[c]) = "ok" /\ cpool[c] = 0
             => res[c] = "NotConnected" /\ acq[c] = 0
       /\ pc[c] \in {"acquiring", "executing"}
             => validate_query(csql[c]) = "ok" /\ cpool[c] # 0

\* one call was rejected as not read-only while no pool existed, another
\* was refused as not connected
C5_Witness ==
    \E c, d \in env.callers :
       /\ res[c] = "ReadOnlyViolation" /\ cpool[c] = 0 /\ csql[c] = SqlDelete
       /\ res[d] = "NotConnected" /\ csql[d] = SqlSelect

\* C6: no call returns rows after its own deadline: a call whose statement
\* the backend had not completed when timeout_seconds had elapsed has stopped
\* waiting and failed instead of returning rows.
C6_NoRowsPastDeadline ==
    \A c \in env.callers : res[c] = "rows" => waited[c] <= timeout_seconds

\* C7: a result set of more than max_rows rows makes execute_query fail with
\* QueryGuardrailError and return no row; a successful return holds the whole
\* result set, of at most max_rows rows.
C7_RowCapIsHardFailure ==
    \A c \in env.callers :
       /\ res[c] = "rows" => ret[c] <= max_rows /\ ret[c] = avail[c]
       /\ pc[c] = "done" /\ avail[c] > max_rows
             => res[c] = "QueryGuardrailError" /\ ret[c] = 0

\* the calls that hold a connection of pool g
Holders(g) == { c \in env.callers : held[c] # NoConn /\ held[c][1] = g }

\* C8: at most PoolMax connections of a pool are in use at once, no two calls
\* hold the same connection, a connection is held only by a call that is
\* running its statement, and a call that has ended, with rows or with an
\* error, holds none.
C8_PoolBoundedAndReleased ==
    /\ \A g \in 1..npools : Cardinality(Holders(g)) <= PoolMax
    /\ \A c, d \in env.callers :
          c # d /\ held[c] # NoConn => held[c] # held[d]
    /\ \A c \in env.callers :
          /\ held[c] # NoConn => pc[c] = "executing" /\ held[c][2] \in Slots
          /\ pc[c] = "done" => held[c] = NoConn

\* a call found the pool exhausted and later got a connection, after one
\* call had returned rows and another had raised
C8_Witness ==
    \E c, d, e \in env.callers :
       /\ stalled[c] /\ held[c] # NoConn
       /\ res[d] = "rows" /\ acq[d] = 1
       /\ res[e] = "DatabaseError" /\ acq[e] = 1

----------------------------------------------------------------------------
(* Properties of the role filter *)

\* the order PUBLIC < INTERNAL < RESTRICTED < SECRET < TOP_SECRET
SpecLevel(label) ==
    CASE UpperStr(label) = PUBLIC -> 0
      [] UpperStr(label) = INTERNAL -> 1
      [] UpperStr(label) = RESTRICTED -> 2
      [] UpperStr(label) = SECRET -> 3
      [] UpperStr(label) = TOP_SECRET -> 4

KnownLabel(label) ==
    UpperStr(label) \in {PUBLIC, INTERNAL, RESTRICTED, SECRET, TOP_SECRET}

\* viewer -> INTERNAL, analyst -> RESTRICTED, service -> SECRET,
\* admin -> TOP_SECRET
SpecClearance(role) ==
    CASE role = "viewer" -> SpecLevel(INTERNAL)
      [] role = "analyst" -> SpecLevel(RESTRICTED)
      [] role = "service" -> SpecLevel(SECRET)
      [] role = "admin" -> SpecLevel(TOP_SECRET)

\* the classification a candidate resolves to, given the registry
Resolved(t) == resolve_classification(t, BuildLookup(schema))

ScenarioTables == <<Inline(EMPLOYEES, INTERNAL), Inline(SALARIES, SECRET)>>

\* C9: for a named role, filter_tables_by_role keeps exactly the candidates
\* whose resolved classification is at or below the role's clearance, in
\* their order; for [EMPLOYEES:INTERNAL, SALARIES:SECRET] a viewer gets
\* [EMPLOYEES] and a service caller gets both.
C9_KeepsIffWithinClearance ==
    (mdone /\ mrole \in {"viewer", "analyst", "service", "admin"}) =>
     LET lookup == BuildLookup(schema)
         clearance == SpecClearance(mrole)
         Within(t) == LET c == resolve_classification(t, lookup)
                      IN  KnownLabel(c) /\ SpecLevel(c) <= clearance
     IN
       /\ SelectSeq(mfiltered,
                    LAMBDA t : KnownLabel(resolve_classification(t, lookup)))
             = SelectSeq(mtables, Within)
       /\ \A i \in 1..Len(mfiltered) : \E j \in 1..Len(mtables) :
             mfiltered[i] = mtables[j]
       /\ (mtables = ScenarioTables /\ mrole = "viewer"
              => mfiltered = <<Inline(EMPLOYEES, INTERNAL)>>)
       /\ (mtables = ScenarioTables /\ mrole = "service"
              => mfiltered = ScenarioTables)

\* the scenario, for the viewer
C9_Witness ==
    /\ mdone
    /\ mrole = "viewer"
    /\ mtables = ScenarioTables
    /\ mfiltered = <<Inline(EMPLOYEES, INTERNAL)>>

----------------------------------------------------------------------------
(* Properties of the natural-language query path *)

\* the request carries no token, or one that fails verification
Anonymous == ch_token = NoToken \/ ~ch_token.signed \/ ch_token.expired

\* the schema objects a SQL text names
ObjectsRead(s) ==
    { n \in {EMPLOYEES, SALARIES, HOLIDAYS} :
         \E i \in 1..Len(s) : KeywordMatchAt(s, i, n) }

\* the role a caller holds: the role of its verified token, viewer without
CallerRole == IF ch_user = "None" THEN "viewer" ELSE ch_user

\* C4: a caller of POST /v1/chat receives results only from schema objects
\* classified at or below its clearance, whatever SQL the generator returned.
C4_NoResultsAboveClearance ==
    ch_results = "rows" =>
       \A n \in ObjectsRead(ch_sql) :
          SpecLevel(Resolved(Bare(n))) <= SpecClearance(CallerRole)

\* C10: a request to POST /v1/chat without a token, or with a token that
\* fails verification, is served as anonymous, never answered 401 or 403,
\* and its candidates are filtered with exactly the viewer's clearance: what
\* is at or below INTERNAL is kept, nothing RESTRICTED, SECRET or TOP_SECRET.
C10_AnonymousFilteredAsViewer ==
    (ch_pc # "idle" /\ Anonymous) =>
       /\ ch_status \notin {401, 403}
       /\ ch_user = "None"
       /\ ch_tables = SelectSeq(ch_cands,
                                LAMBDA t : SpecLevel(Resolved(t)) <= SpecLevel(INTERNAL))
       /\ ch_prompt = ch_tables
       /\ \A i \in 1..Len(ch_tables) :
             UpperStr(Resolved(ch_tables[i])) \notin {RESTRICTED, SECRET, TOP_SECRET}

\* a request with a token that is not validly signed was answered with rows
\* after a SECRET candidate had been dropped and an INTERNAL one kept
C10_Witness ==
    /\ ch_pc = "responded"
    /\ ch_token # NoToken /\ ~ch_token.signed
    /\ ch_status = 200
    /\ ch_results = "rows"
    /\ \E i \in 1..Len(ch_cands) : UpperStr(Resolved(ch_cands[i])) = SECRET
    /\ Len(ch_tables) = 1
    /\ UpperStr(Resolved(ch_tables[1])) = INTERNAL

----------------------------------------------------------------------------
(* Properties of run() and of the role filter, continued *)

NamedRoles == {"viewer", "analyst", "service", "admin"}

\* the clearance of a role: that of the named role, PUBLIC's for any other
ClearanceOf(role) ==
    IF role \in NamedRoles THEN SpecClearance(role) ELSE SpecLevel(PUBLIC)

\* the role run() filters with: viewer when user_role is left out or empty
EffectiveRole == IF ch_user_role \in {"None", ""} THEN "viewer" ELSE ch_user_role

\* C11: once run() has built its prompt and called the generator, neither
\* the prompt nor the relevant_tables of the response holds a candidate
\* classified above the clearance of the effective role, and the prompt is
\* written from the filtered list.
C11_PromptHoldsOnlyCleared ==
    ch_pc # "idle" =>
       /\ ch_prompt = ch_tables
       /\ \A i \in 1..Len(ch_prompt) :
             SpecLevel(Resolved(ch_prompt[i])) <= ClearanceOf(EffectiveRole)
       /\ \A i \in 1..Len(ch_tables) :
             SpecLevel(Resolved(ch_tables[i])) <= ClearanceOf(EffectiveRole)

\* an analyst's question found a RESTRICTED and a TOP_SECRET candidate; the
\* response was built from a prompt that held the RESTRICTED one only
C11_Witness ==
    /\ ch_pc = "returned"
    /\ ch_user_role = "analyst"
    /\ ch_cands = <<Flat(EMPLOYEES, RESTRICTED), Flat(SALARIES, TOP_SECRET)>>
    /\ ch_prompt = <<Flat(EMPLOYEES, RESTRICTED)>>
    /\ ch_tables = ch_prompt

\* C12: a request to GET /api/auth/user with a token that logout has been
\* called with is answered 401, although the token is unexpired and validly
\* signed.
C12_LoggedOutTokenRejected ==
    (au_req.endpoint = "user" /\ au_req.jti \in au_loggedout)
        => au_req.status = 401

\* C13: filter_tables_by_role called with a role that is none of viewer,
\* analyst, service, admin keeps no candidate at all, PUBLIC ones included.
C13_UnknownRoleKeepsNothing ==
    (mdone /\ mrole \notin NamedRoles) => mfiltered = <<>>

\* C13 as amended: filter_tables_by_role called with a role that is none of
\* viewer, analyst, service, admin uses PUBLIC's level as the clearance: it
\* keeps exactly the candidates whose classification resolves to PUBLIC, in
\* their order, and none of any higher classification.
C13_UnknownRoleKeepsOnlyPublic ==
    (mdone /\ mrole \notin NamedRoles) =>
       mfiltered = SelectSeq(mtables, LAMBDA t : UpperStr(Resolved(t)) = PUBLIC)

\* an unknown role was given a PUBLIC and an INTERNAL candidate and got the
\* PUBLIC one back
C13_Witness ==
    /\ mdone
    /\ mrole = "auditor"
    /\ mtables = <<Inline(EMPLOYEES, INTERNAL), Inline(HOLIDAYS, PUBLIC)>>
    /\ mfiltered = <<Inline(HOLIDAYS, PUBLIC)>>

\* the name a candidate is looked up by: table_name, else name, upper-cased
LookupName(t) == UpperStr(IF t.table_name # <<>> THEN t.table_name ELSE t.name)

\* C14: _resolve_classification returns the nested
\* security_metadata.classification when the candidate has one; else its
\* flat classification when it has one; else the registry entry of its
\* upper-cased table_name or name when there is one; else, and when no
\* registry is loaded, INTERNAL.
C14_ResolutionPriority ==
    rc_result # Pending =>
       /\ rc_table.sm_classification # <<>>
             => rc_result = rc_table.sm_classification
       /\ (rc_table.sm_classification = <<>> /\ rc_table.classification # <<>>)
             => rc_result = rc_table.classification
       /\ (~HasInline(rc_table) /\ LookupName(rc_table) \in DOMAIN rc_lookup)
             => rc_result = rc_lookup[LookupName(rc_table)]
       /\ (~HasInline(rc_table) /\ LookupName(rc_table) \notin DOMAIN rc_lookup)
             => rc_result = INTERNAL

\* a candidate with a nested SECRET and a flat PUBLIC classification, listed
\* in the registry as well, resolved to SECRET
C14_Witness ==
    /\ rc_table = TableDict(SALARIES, <<>>, SECRET, PUBLIC)
    /\ SALARIES \in DOMAIN rc_lookup
    /\ rc_lookup[SALARIES] # SECRET
    /\ rc_result = SECRET

\* C15: whatever filter_tables_by_role keeps for a role, it keeps for every
\* role, named or unknown, of the same or a higher clearance, on the same
\* candidate list.
C15_MonotoneInClearance ==
    mdone =>
       \A a \in Roles :
          ClearanceOf(a) >= ClearanceOf(mrole) =>
             LET kept == filter_tables_by_role(mtables, a, schema)
             IN  \A i \in 1..Len(mfiltered) :
                    \E j \in 1..Len(kept) : kept[j] = mfiltered[i]

\* a viewer kept some candidates and an admin keeps more of the same list
C15_Witness ==
    /\ mdone
    /\ mrole = "viewer"
    /\ mfiltered # <<>>
    /\ Len(filter_tables_by_role(mtables, "admin", schema)) > Len(mfiltered)

\* C16: filtering the list that filter_tables_by_role returned, with the
\* same role, returns that list again: the same candidates in the same order.
C16_Idempotent ==
    mredone => mrefiltered = mfiltered

\* the first call dropped a candidate and kept one that is classified by the
\* registry only; the second call returned the same list
C16_Witness ==
    /\ mredone
    /\ Len(mfiltered) < Len(mtables)
    /\ \E i \in 1..Len(mfiltered) : ~HasInline(mfiltered[i])
    /\ schema # <<>>
    /\ mrefiltered = mfiltered

----------------------------------------------------------------------------
(* Properties of the validator, continued *)

\* Unicode's simple lower-case mapping of the characters it changes
SimpleLowerOf ==
    [c \in { UpperLetters[i] : i \in 1..26 } |->
        LowerLetters[CHOOSE i \in 1..26 : UpperLetters[i] = c]]
    @@ ("U+0130" :> "i") @@ ("U+212A" :> "k") @@ ("U+00C9" :> "U+00E9")

SimpleLower(c) == IF c \in DOMAIN SimpleLowerOf THEN SimpleLowerOf[c] ELSE c

\* c and k are the same letter, whatever the case of each: upper-casing or
\* lower-casing takes them to the same character
SameLetter(c, k) ==
    \/ UpperChar(c) = UpperChar(k)
    \/ SimpleLower(c) = SimpleLower(k)

\* kw stands in s as a whole word, in any letter case: the characters before
\* and after the occurrence, if any, are not letters, digits or '_'
OccursAsWord(s, kw) ==
    \E i \in 1..Len(s) :
       /\ i + Len(kw) - 1 <= Len(s)
       /\ \A j \in 1..Len(kw) : SameLetter(s[i + j - 1], kw[j])
       /\ (i > 1 => ~IsWordChar(s[i - 1]))
       /\ (i + Len(kw) <= Len(s) => ~IsWordChar(s[i + Len(kw)]))

\* C17: validate_query returns without raising for every text that starts
\* with SELECT or WITH, holds none of the listed keywords as a whole word
\* and holds no second statement.
C17_PureSelectAccepted ==
    (/\ vres # "pending"
     /\ IsSelectOrWith(sql)
     /\ ~HasSecondStatement(sql)
     /\ \A kw \in SpecKeywords : ~OccursAsWord(sql, kw))
        => vres = "ok"

\* a SELECT that names a column whose name starts with a keyword was accepted
C17_Witness ==
    /\ sql = <<"S","E","L","E","C","T"," ","u","p","d","a","t","e","d">>
    /\ vres = "ok"

----------------------------------------------------------------------------
(* Properties of the revocation stores and of the rate limiters *)

\* C18: no revocation store holds an entry whose expiry has passed, whatever
\* calls of revoke and is_revoked were made and without any cleanup call.
C18_NoEntryPastExpiry ==
    \A e \in rv_store \cup rv_blacklist : rv_now <= e.exp

\* C19: the middleware answers 429 exactly when the requests recorded for
\* the request's own key in the trailing 60 seconds, this one and rejected
\* ones included, number more than 10 on a path that starts with /api/auth
\* and more than 60 on any other path; any other request is passed on.
\* Requests of other keys do not count. The requests recorded are those
\* made, up to this one, since the limiter's windows were last cleared.
C19_RejectsIffOverLimit ==
    rl_last.n > 0 =>
       LET recent == rl_last.recent
           limit == IF StartsWith(rl_last.path, <<"/","a","p","i","/","a","u","t","h">>)
                    THEN 10 ELSE 60
       IN  /\ rl_last.status = 429 <=> recent > limit
           /\ rl_last.passed <=> rl_last.status # 429
           /\ rl_last.count = recent

\* a request outside /api/auth was the 61st of its key within a minute and
\* was rejected, while another key had sent requests too
C19_Witness ==
    /\ rl_last.status = 429
    /\ ~StartsWith(rl_last.path, AuthPrefix)
    /\ rl_last.count = 61
    /\ rl_last.at > 0
    /\ \E k \in RateKeys : k # rl_last.key /\ rl_log[k] # <<>>

\* C20: when every process has completed its record_request call for the
\* key, all inside one window, the store holds one entry per call made
\* since the key was last cleared.
C20_EveryCallCounted ==
    (\A p \in Procs : rd_pc[p] = "done") => Cardinality(rd_zset) = rd_calls

----------------------------------------------------------------------------
(* Properties of the rate-limit key and of the middleware stack *)

\* C21: a request is counted under 'user:<sub>' only when it carries a token
\* whose signature verifies and whose subject is sub; a request without a
\* token, or with a token whose signature does not verify, is counted under
\* 'ip:<addr>' of its client address.
C21_KeyFromVerifiedTokenOnly ==
    rl_last.n > 0 =>
       /\ rl_last.key[1] = "user"
             => /\ rl_last.client.bearer
                /\ rl_last.client.signed
                /\ rl_last.key[2] = rl_last.client.sub
       /\ (~rl_last.client.bearer \/ ~rl_last.client.signed)
             => rl_last.key = <<"ip", rl_last.client.ip>>

\* the headers SecurityMiddleware is to put on every response
RequiredHeaders ==
    { "X-Frame-Options", "X-Content-Type-Options", "X-XSS-Protection",
      "Content-Security-Policy", "X-API-Version" }

\* C29: every response carries X-Frame-Options: DENY, X-Content-Type-Options:
\* nosniff, X-XSS-Protection, Content-Security-Policy and X-API-Version, the
\* 429 responses of RateLimitMiddleware included.
C29_SecurityHeadersOnEveryResponse ==
    rl_last.n > 0 =>
       /\ \A name \in RequiredHeaders :
             \E h \in rl_last.headers : h[1] = name
       /\ <<"X-Frame-Options", "DENY">> \in rl_last.headers
       /\ <<"X-Content-Type-Options", "nosniff">> \in rl_last.headers

----------------------------------------------------------------------------
(* The role of an authenticated caller of POST /v1/chat *)

\* C30: for a caller of POST /v1/chat with a verified token, the candidates
\* are filtered with the clearance of the token's role: the relevant tables
\* are what filter_tables_by_role gives for the candidates and that role.
C30_FilteredWithCallerRole ==
    (ch_pc # "idle" /\ ch_user \in UserRoles /\ ch_cands # <<>>) =>
       ch_tables = filter_tables_by_role(ch_cands, ch_user, schema)

----------------------------------------------------------------------------
(* Properties of the audit trail *)

\* every event in the log files, in any order
PersistedEvents ==
    UNION { { ad_files[d][i] : i \in 1..Len(ad_files[d]) } : d \in AuditDays }

\* no item of a dict, at any depth, dicts inside lists included, has a
\* sensitive key and a value other than the redaction marker
RECURSIVE NoSensitiveLeft(_)
NoSensitiveLeft(items) ==
    \A i \in 1..Len(items) :
       IF items[i].key # <<>> /\ is_sensitive(items[i].key)
       THEN items[i].val = Str("[REDACTED]", 10)
       ELSE items[i].val.kind \in {"dict", "list"}
               => NoSensitiveLeft(items[i].val.items)

\* C22: in every persisted audit event, the value of every key of details
\* that contains a sensitive term, at any nesting depth, inside nested dicts
\* and inside dicts that are elements of lists, is '[REDACTED]'.
C22_SensitiveKeysRedacted ==
    \A e \in PersistedEvents : NoSensitiveLeft(e.details)

\* C23: a failure to persist an audit event does not reach the caller of
\* log(): log() does not raise, no request ends with status 500 because of
\* it, and a login with valid credentials still returns its token.
C23_WriteFailureDoesNotAbort ==
    /\ ad_last.op = "log" => ~ad_last.raised
    /\ au_req.status # 500
    /\ (au_req.endpoint = "login" /\ au_req.valid)
          => (au_req.status = 200 /\ au_req.issued # 0)

\* C24: every step keeps each log file's earlier lines unchanged and in
\* place; log() adds at most one line, at the end of one file, and query()
\* changes no file.
C24_AppendOnly ==
    [][ /\ \A d \in AuditDays :
             /\ Len(ad_files'[d]) >= Len(ad_files[d])
             /\ SubSeq(ad_files'[d], 1, Len(ad_files[d])) = ad_files[d]
        /\ Cardinality({ d \in AuditDays : ad_files'[d] # ad_files[d] }) <= 1
        /\ \A d \in AuditDays : Len(ad_files'[d]) <= Len(ad_files[d]) + 1
        /\ ad_last'.op = "query" => ad_files' = ad_files ]_vars

\* two events were written to one file, one to the file of the next day,
\* and query() has been called since
C24_Witness ==
    /\ ad_last.op = "query"
    /\ ad_last.events # <<>>
    /\ \E d \in AuditDays : Len(ad_files[d]) >= 2
    /\ Cardinality({ d \in AuditDays : ad_files[d] # <<>> }) >= 2

\* C25: every event that GET /api/audit/logs or GET /api/audit/events/{id}
\* returns to a caller who is not an admin has the caller's own subject as
\* its user_id.
C25_NonAdminSeesOwnEventsOnly ==
    (ad_last.op \in {"logs", "event"} /\ ad_last.caller.role # "admin") =>
       \A i \in 1..Len(ad_last.events) :
          ad_last.events[i].user_id = ad_last.caller.sub

\* a caller who is not an admin got events back from GET /api/audit/logs
\* while the trail held events of another user as well
C25_Witness ==
    /\ ad_last.op = "logs"
    /\ ad_last.caller.role # "admin"
    /\ ad_last.status = 200
    /\ ad_last.events # <<>>
    /\ \E e \in PersistedEvents : e.user_id \notin {"None", ad_last.caller.sub}

----------------------------------------------------------------------------
(* Properties of the failures the execute endpoints report *)

\* the class of failure an exception stands for
FailureClass(outcome) ==
    IF outcome = "ReadOnlyViolationError" THEN "blocked"
    ELSE IF outcome = "QueryGuardrailError" THEN "guardrail"
    ELSE IF outcome \in {"RuntimeError", "Exception"} THEN "internal"
    ELSE "none"

\* C26: on an execute endpoint, failures of two different classes (blocked,
\* guardrail, internal) are answered with two different status codes.
C26_DistinctCodesPerFailureClass ==
    \A a \in er_seen, b \in er_seen :
       ( /\ a[1] = b[1]
         /\ a[1] \in {"/execute", "/api/execute"}
         /\ FailureClass(a[2]) # "none"
         /\ FailureClass(b[2]) # "none"
         /\ FailureClass(a[2]) # FailureClass(b[2]) )
       => a[4] # b[4]

\* C27: when execution fails with an internal exception, the text of the
\* exception is no part of the response, on /execute, /api/execute and
\* /v1/chat.
C27_InternalTextNotEchoed ==
    FailureClass(er_last.outcome) = "internal" =>
       \A i \in 1..Len(er_last.response.error) :
          er_last.response.error[i] # er_last.text

----------------------------------------------------------------------------
(* Properties of dispatch_webhook *)

\* the urlopen calls made so far all failed
AllFailed == \A i \in 1..Len(wh_calls) : wh_calls[i] # "2xx"

\* C28: dispatch_webhook makes at most max_retries + 1 attempts and then
\* ends; it returns True at the first attempt answered 2xx, which is its
\* last attempt, and it returns False only after exactly max_retries + 1
\* attempts that all failed.
C28_TerminatesWithinRetries ==
    /\ [] ( /\ Len(wh_calls) <= wh_max_retries + 1
            /\ \A i \in 1..(Len(wh_calls) - 1) : wh_calls[i] # "2xx"
            /\ wh_result = "True"
                  => (wh_calls # <<>> /\ wh_calls[Len(wh_calls)] = "2xx")
            /\ (wh_calls # <<>> /\ wh_calls[Len(wh_calls)] = "2xx")
                  => wh_result = "True"
            /\ wh_result = "False"
                  => (Len(wh_calls) = wh_max_retries + 1 /\ AllFailed)
            /\ wh_pc = "done" <=> wh_result # "None" )
    /\ <>(wh_pc = "done")

\* three attempts failed, by an exception and by a status, with two sleeps
\* in between, and the call returned False
C28_Witness ==
    /\ wh_pc = "done"
    /\ wh_result = "False"
    /\ wh_max_retries = 2
    /\ Len(wh_calls) = 3
    /\ wh_sleeps = <<1, 2>>
    /\ \E i \in 1..3 : wh_calls[i] = "exception"

====
